---- MODULE Spec2Model ----
(***************************************************************************)
(* Compound-feasibility analysis engine of the Elements periodic-table     *)
(* client (public/client.js, ElementsClient.analyzeCompound and the        *)
(* solvers it dispatches to), the page that calls it (selection, Build     *)
(* and Clear buttons), the client's reconnecting WebSocket, and the        *)
(* server's WebSocket endpoint (src/server.js).                            *)
(*                                                                         *)
(* Conventions of the model                                                *)
(*  - an element record is a TLA+ record; a field the JSON record lacks    *)
(*    (oxidationStates) is a field the TLA+ record lacks;                  *)
(*  - electronegativities are integer hundredths of the Pauling value      *)
(*    (2.20 -> 220), so the thresholds 0.4, 1.5, 1.7, 2.0 are 40, 150,     *)
(*    170, 200;                                                            *)
(*  - a formula is the JavaScript string, built by concatenation;          *)
(*  - the oxidationStates text of a candidate is the sequence of its       *)
(*    per-element entries [symbol, prefix, ox (, count)]; the placeholder  *)
(*    text 'User-specified formula' and a bare-string candidate carry no   *)
(*    entry and are the empty sequence;                                    *)
(*  - reason is the sequence of the sentences the code concatenates,       *)
(*    numbers left out.                                                    *)
(***************************************************************************)
EXTENDS Integers, Sequences, FiniteSets, TLC

VARIABLES
    elements,             \* the caller's element array (first argument)
    userSpecifiedCounts,  \* the caller's counts argument: [isNull, items]
    analysis,             \* the record analyzeCompound returned
    argsAtCall,           \* the two arrays as they were when the call was made
    pc,                   \* "call" before the call, "done" after it,
                          \* "idle" while no call is being looked at
    solver,               \* one step of a solver looked at on its own:
                          \* [op, args, done, result]
    selectedElements,     \* client: the selection Set, in insertion order
    buildBtnDisabled,     \* client: disabled property of the Build button
    sockets,              \* client: readyState of every WebSocket it created
                          \* that has not closed yet, in creation order
    connected,            \* client: the connected flag
    reconnectAttempts,    \* client: the reconnect counter
    timers,               \* client: delays of the pending reconnect timeouts
    clients,              \* server: the clients Set
    readyState,           \* server: readyState of each connection's socket
    sent,                 \* server: messages sent on each connection, in order
    inbox,                \* server: the messages handled so far: [ws, message]
    running               \* server: the process has not died of an exception

callVars == <<elements, userSpecifiedCounts, analysis, argsAtCall, pc, solver>>
pageVars == <<selectedElements, buildBtnDisabled>>
socketVars == <<sockets, connected, reconnectAttempts, timers>>
serverVars == <<clients, readyState, sent, inbox, running>>
vars == <<callVars, pageVars, socketVars, serverVars>>

\* ------------------------------------------------------------------------
\* Bounds of the model
\* ------------------------------------------------------------------------
MaxElements == 3
MaxFormulaAtoms == 5
\* connections the server accepts in one run, and messages it handles
MaxConnections == 2
MaxMessages == 2

\* ------------------------------------------------------------------------
\* Element records (input data; the fields the engine reads)
\* ------------------------------------------------------------------------
Hydrogen ==
    [atomicNumber |-> 1, symbol |-> "H", category |-> "diatomic nonmetal",
     oxidationStates |-> <<-1, 0, 1>>]
Helium ==
    [atomicNumber |-> 2, symbol |-> "He", category |-> "noble gas",
     oxidationStates |-> <<0>>]
Carbon ==
    [atomicNumber |-> 6, symbol |-> "C", category |-> "polyatomic nonmetal",
     oxidationStates |-> <<-4, -3, -2, -1, 0, 1, 2, 3, 4>>]
Nitrogen ==
    [atomicNumber |-> 7, symbol |-> "N", category |-> "diatomic nonmetal",
     oxidationStates |-> <<-3, -2, -1, 0, 1, 2, 3, 4, 5>>]
Oxygen ==
    [atomicNumber |-> 8, symbol |-> "O", category |-> "diatomic nonmetal",
     oxidationStates |-> <<-2, -1, 0, 1, 2>>]
Fluorine ==
    [atomicNumber |-> 9, symbol |-> "F", category |-> "diatomic nonmetal",
     oxidationStates |-> <<-1, 0>>]
Calcium ==
    [atomicNumber |-> 20, symbol |-> "Ca", category |-> "alkaline earth metal",
     oxidationStates |-> <<0, 1, 2>>]
\* a record without the oxidationStates field
Rhodium ==
    [atomicNumber |-> 45, symbol |-> "Rh", category |-> "transition metal"]
\* a record for which no electronegativity is tabulated
Rutherfordium ==
    [atomicNumber |-> 104, symbol |-> "Rf", category |-> "transition metal",
     oxidationStates |-> <<0, 4>>]

Catalog ==
    {Hydrogen, Helium, Carbon, Nitrogen, Oxygen, Fluorine, Calcium, Rhodium,
     Rutherfordium}

\* ------------------------------------------------------------------------
\* JavaScript helpers
\* ------------------------------------------------------------------------
Abs(n) == IF n < 0 THEN -n ELSE n

\* Math.max(...values); Math.max() of no argument is -Infinity
NegInfinity == -1
MathMax(values) ==
    IF values = {} THEN NegInfinity
    ELSE CHOOSE m \in values : \A v \in values : v <= m

\* Array.prototype.join('') of an array of strings
RECURSIVE JoinStrings(_)
JoinStrings(parts) ==
    IF parts = <<>> THEN ""
    ELSE Head(parts) \o JoinStrings(Tail(parts))

\* array.map(f)
MapSeq(f(_), s) == [i \in 1..Len(s) |-> f(s[i])]

\* Array.prototype.sort with a comparator (stable): insertion of each entry
\* after the last entry that does not compare greater
RECURSIVE InsertSorted(_, _, _)
InsertSorted(cmp(_, _), x, sorted) ==
    IF sorted = <<>> THEN <<x>>
    ELSE IF cmp(Head(sorted), x) <= 0
         THEN <<Head(sorted)>> \o InsertSorted(cmp, x, Tail(sorted))
         ELSE <<x>> \o sorted

RECURSIVE SortWith(_, _)
SortWith(cmp(_, _), s) ==
    IF s = <<>> THEN <<>>
    ELSE InsertSorted(cmp, s[Len(s)], SortWith(cmp, SubSeq(s, 1, Len(s) - 1)))

\* elements.sort((a, b) => a.atomicNumber - b.atomicNumber)
byAtomicNumber(a, b) == a.atomicNumber - b.atomicNumber
\* variant: the array left in the caller's order
sortElementsKeepingOrder(els) == els
sortElements(els) == SortWith(byAtomicNumber, els)

\* elementCounts.sort((a, b) => a.element.atomicNumber - b.element.atomicNumber)
byElementAtomicNumber(a, b) == a.element.atomicNumber - b.element.atomicNumber
sortElementCounts(ecs) == SortWith(byElementAtomicNumber, ecs)

\* el.oxidationStates || [0]   (and || [] in the validator: both filter to
\* the same list of nonzero states)
\* variant: || [1] in place of || [0]
oxidationStatesOrOne(el) ==
    IF "oxidationStates" \in DOMAIN el THEN el.oxidationStates ELSE <<1>>
oxidationStatesOf(el) ==
    IF "oxidationStates" \in DOMAIN el THEN el.oxidationStates ELSE <<0>>

isNonZero(ox) == ox # 0
nonZeroOxStates(el) == SelectSeq(oxidationStatesOf(el), isNonZero)

\* symbol + (count > 1 ? count : '')
\* variant: the count always written
formulaPartWithCount(symbol, count) ==
    symbol \o ToString(count)
formulaPart(symbol, count) ==
    symbol \o (IF count > 1 THEN ToString(count) ELSE "")

\* ${ox > 0 ? '+' : ''}
signPrefix(ox) == IF ox > 0 THEN "+" ELSE ""

RECURSIVE gcd(_, _)
gcd(a, b) == IF b = 0 THEN a ELSE gcd(b, a % b)
\* the number of calls gcd(a, b) makes, itself included
RECURSIVE gcdCalls(_, _)
gcdCalls(a, b) == IF b = 0 THEN 1 ELSE 1 + gcdCalls(b, a % b)

\* ------------------------------------------------------------------------
\* Utils.getElectronegativity (utils.js): Pauling value by atomic number,
\* null when none is tabulated (noble gases, undocumented elements)
\* ------------------------------------------------------------------------
null == -1
electronegativityTable ==
    (1 :> 220) @@ (6 :> 255) @@ (7 :> 304) @@ (8 :> 344) @@ (9 :> 398) @@
    (20 :> 100) @@ (45 :> 228)

getElectronegativity(atomicNumber) ==
    IF atomicNumber \in DOMAIN electronegativityTable
    THEN electronegativityTable[atomicNumber]
    ELSE null

\* item.en === null
\* variant: no value counts as missing
isMissingNever(en) == FALSE
isMissing(en) == en = null

\* el.category === 'noble gas'
\* variant: the category spelled with a hyphen
isNobleGasHyphenated(el) == el.category = "noble-gas"
isNobleGas(el) == el.category = "noble gas"

\* ------------------------------------------------------------------------
\* Known-compound registry (the two tables of checkCommonCompounds and
\* checkCommonPattern); subscript digits of the sentences written in ASCII
\* ------------------------------------------------------------------------
commonPairs ==
    ("H-O" :> "Water (H2O) is one of the most stable compounds.") @@
    ("H-Cl" :> "Hydrochloric acid (HCl) is a very stable compound.") @@
    ("Na-Cl" :> "Table salt (NaCl) is extremely stable.") @@
    ("C-O" :> "Carbon dioxide (CO2) and carbon monoxide (CO) are stable.") @@
    ("N-H" :> "Ammonia (NH3) is a stable compound.") @@
    ("Ca-O" :> "Calcium oxide (CaO) is a common stable compound.") @@
    ("Mg-O" :> "Magnesium oxide (MgO) is highly stable.") @@
    ("Fe-O" :> "Iron oxides (FeO, Fe2O3) are common and stable.") @@
    ("Al-O" :> "Aluminum oxide (Al2O3) is extremely stable.") @@
    ("Si-O" :> "Silicon dioxide (SiO2) is very stable - quartz.") @@
    ("H-N" :> "Ammonia (NH3) is stable.") @@
    ("H-S" :> "Hydrogen sulfide (H2S) is a known compound.") @@
    ("K-Cl" :> "Potassium chloride (KCl) is stable.") @@
    ("Ca-Cl" :> "Calcium chloride (CaCl2) is stable.")

commonFormulas ==
    ("H2O" :> "Water is one of the most stable and abundant compounds.") @@
    ("H2O2" :> "Hydrogen peroxide is a well-known oxidizer.") @@
    ("NaCl" :> "Table salt is extremely stable.") @@
    ("CO2" :> "Carbon dioxide is a stable and common gas.") @@
    ("CO" :> "Carbon monoxide is stable though toxic.") @@
    ("NH3" :> "Ammonia is a stable and important compound.") @@
    ("CH4" :> "Methane is a stable hydrocarbon.") @@
    ("C2H6" :> "Ethane is a stable hydrocarbon.") @@
    ("C3H8" :> "Propane is a stable fuel.") @@
    ("C6H12O6" :> "Glucose is a fundamental biological molecule.") @@
    ("H2SO4" :> "Sulfuric acid is a very stable strong acid.") @@
    ("HCl" :> "Hydrochloric acid is highly stable.") @@
    ("HNO3" :> "Nitric acid is a stable strong acid.") @@
    ("CaCO3" :> "Calcium carbonate (limestone) is very stable.") @@
    ("NaOH" :> "Sodium hydroxide is a stable strong base.") @@
    ("KOH" :> "Potassium hydroxide is a stable strong base.") @@
    ("CaO" :> "Calcium oxide (quicklime) is stable.") @@
    ("MgO" :> "Magnesium oxide is highly stable.") @@
    ("Al2O3" :> "Aluminum oxide (corundum) is extremely stable.") @@
    ("SiO2" :> "Silicon dioxide (quartz) is very stable.") @@
    ("Fe2O3" :> "Iron(III) oxide (rust) is stable.") @@
    ("FeO" :> "Iron(II) oxide is a known compound.") @@
    ("CaCl2" :> "Calcium chloride is stable.") @@
    ("Na2SO4" :> "Sodium sulfate is stable.") @@
    ("K2CO3" :> "Potassium carbonate is stable.") @@
    ("C8H10N4O2" :> "Caffeine - a stable alkaloid compound!")

\* the registry the program ships, and the registry with no entry (the
\* reference against which the registry pass is compared)
Registry == [pairs |-> commonPairs, formulas |-> commonFormulas]
EmptyRegistry == [pairs |-> <<>>, formulas |-> <<>>]

\* table[key] || null, with null written as the empty string (no sentence)
lookup(table, key) == IF key \in DOMAIN table THEN table[key] ELSE ""

\* commonPairs[key1] || commonPairs[key2] || null
\* variant: commonPairs[key1] || null
checkCommonCompoundsFirstKey(reg, el1, el2, formulas) ==
    lookup(reg.pairs, el1.symbol \o "-" \o el2.symbol)
checkCommonCompounds(reg, el1, el2, formulas) ==
    LET key1 == el1.symbol \o "-" \o el2.symbol
        key2 == el2.symbol \o "-" \o el1.symbol
    IN  IF lookup(reg.pairs, key1) # "" THEN lookup(reg.pairs, key1)
        ELSE lookup(reg.pairs, key2)

\* commonFormulas[formula] || null, the formula rebuilt from the counts
checkCommonPattern(reg, elementCounts) ==
    LET part(ec) == formulaPart(ec.element.symbol, ec.count)
        formula == JoinStrings(MapSeq(part, elementCounts))
    IN  lookup(reg.formulas, formula)

\* ------------------------------------------------------------------------
\* Bond classifier (analyzeCompound 777-798, analyzeUserFormula 1146-1166)
\* ------------------------------------------------------------------------
\* enDiffs over the pairs i < j, then Math.max(...enDiffs.map(d => d.diff))
maxENDiffOf(ens) ==
    MathMax({Abs(ens[p[1]] - ens[p[2]]) :
                p \in {q \in (1..Len(ens)) \X (1..Len(ens)) : q[1] < q[2]}})

\* variant: the ionic threshold inclusive
classifyBondInclusive(maxENDiff) ==
    IF maxENDiff >= 170 THEN "ionic"
    ELSE IF maxENDiff > 40 THEN "polar covalent"
    ELSE "nonpolar covalent"
classifyBond(maxENDiff) ==
    IF maxENDiff > 170 THEN "ionic"
    ELSE IF maxENDiff > 40 THEN "polar covalent"
    ELSE "nonpolar covalent"

\* ------------------------------------------------------------------------
\* Binary formula solver (analyzeBinaryCompound 809-895)
\* ------------------------------------------------------------------------
\* variant: only a pair of positive states is skipped
sameSignPositive(ox_a, ox_b) == ox_a > 0 /\ ox_b > 0
sameSign(ox_a, ox_b) == (ox_a > 0 /\ ox_b > 0) \/ (ox_a < 0 /\ ox_b < 0)

\* the candidate pushed for one pair (ox_a, ox_b)  (839-858)
binaryCandidate(element1, element2, ox_a, ox_b) ==
    LET abs_a == Abs(ox_a)
        abs_b == Abs(ox_b)
        g == gcd(abs_a, abs_b)
        subscript_a == abs_b \div g
        subscript_b == abs_a \div g
        formula ==
            IF subscript_a = 1 /\ subscript_b = 1
            THEN element1.symbol \o element2.symbol
            ELSE IF subscript_a = 1
            THEN element1.symbol \o element2.symbol \o ToString(subscript_b)
            ELSE IF subscript_b = 1
            THEN element1.symbol \o ToString(subscript_a) \o element2.symbol
            ELSE element1.symbol \o ToString(subscript_a)
                 \o element2.symbol \o ToString(subscript_b)
    IN  [formula |-> formula,
         oxidationStates |->
            << [symbol |-> element1.symbol, prefix |-> signPrefix(ox_a),
                ox |-> ox_a],
               [symbol |-> element2.symbol, prefix |-> signPrefix(ox_b),
                ox |-> ox_b] >>]

\* variant: the loop over the second element's states is the outer one
binaryFormulasSecondOuter(element1, element2, nonZeroOx1, nonZeroOx2) ==
    LET n1 == Len(nonZeroOx1)
        n2 == Len(nonZeroOx2)
        oxA(k) == nonZeroOx1[((k - 1) % n1) + 1]
        oxB(k) == nonZeroOx2[((k - 1) \div n1) + 1]
        pairs == [k \in 1..(n1 * n2) |-> <<oxA(k), oxB(k)>>]
        kept(p) == ~sameSign(p[1], p[2])
        cand(p) == binaryCandidate(element1, element2, p[1], p[2])
    IN  MapSeq(cand, SelectSeq(pairs, kept))
\* the two nested for-of loops (834-860): the pairs in nested order, the
\* same-sign pairs skipped
binaryFormulas(element1, element2, nonZeroOx1, nonZeroOx2) ==
    LET n1 == Len(nonZeroOx1)
        n2 == Len(nonZeroOx2)
        oxA(k) == nonZeroOx1[((k - 1) \div n2) + 1]
        oxB(k) == nonZeroOx2[((k - 1) % n2) + 1]
        pairs == [k \in 1..(n1 * n2) |-> <<oxA(k), oxB(k)>>]
        kept(p) == ~sameSign(p[1], p[2])
        cand(p) == binaryCandidate(element1, element2, p[1], p[2])
    IN  MapSeq(cand, SelectSeq(pairs, kept))

analyzeBinaryCompound(reg, element1, element2, bondType, enDiff) ==
    LET nonZeroOx1 == nonZeroOxStates(element1)
        nonZeroOx2 == nonZeroOxStates(element2)
        formulas == binaryFormulas(element1, element2, nonZeroOx1, nonZeroOx2)
        assessed ==
            IF formulas = <<>>
            THEN [likelihood |-> "unlikely",
                  reason |-> <<"Unable to balance charges with available oxidation states.">>]
            ELSE IF bondType = "ionic" /\ enDiff > 200
            THEN [likelihood |-> "likely",
                  reason |-> <<"Strong ionic bonding expected. Charges balance well.">>]
            ELSE IF bondType = "ionic"
            THEN [likelihood |-> "likely",
                  reason |-> <<"Ionic bonding expected. Stable compound likely.">>]
            ELSE IF bondType = "polar covalent"
            THEN [likelihood |-> "likely",
                  reason |-> <<"Polar covalent bonding. Stable molecular compound.">>]
            ELSE [likelihood |-> "likely",
                  reason |-> <<"Covalent bonding. Stable compound expected.">>]
        commonCompounds == checkCommonCompounds(reg, element1, element2, formulas)
    IN  IF nonZeroOx1 = <<>> \/ nonZeroOx2 = <<>>
        THEN [likelihood |-> "unlikely",
              formulas |-> <<>>,
              bondType |-> bondType,
              reason |-> <<"One or both elements lack non-zero oxidation states needed for compound formation.">>,
              elements |-> <<element1, element2>>,
              enDiff |-> enDiff]
        ELSE [likelihood |-> IF commonCompounds # "" THEN "likely"
                             ELSE assessed.likelihood,
              formulas |-> formulas,
              bondType |-> bondType,
              reason |-> IF commonCompounds # ""
                         THEN <<commonCompounds>> \o assessed.reason
                         ELSE assessed.reason,
              elements |-> <<element1, element2>>,
              enDiff |-> enDiff]

\* ------------------------------------------------------------------------
\* Multi-element formula search (analyzeMultiElementCompound 897-1073)
\* Indices are the code's 0-based indices; array[i] of the code is seq[i + 1].
\* ------------------------------------------------------------------------
maxAtoms == 12
maxFormulas == 50

\* the comparator of 928-933: by absolute value, the positive first on a tie
byAbsPreferPositive(a, b) ==
    IF Abs(a) # Abs(b) THEN Abs(a) - Abs(b) ELSE b - a

\* sorted[0] of the element's nonzero states  (926-939)
preferredOxOf(oxStates) == SortWith(byAbsPreferPositive, oxStates)[1]

\* the entries k of the array with counts[k] > 0, in index order
positiveIndices(counts) ==
    SelectSeq([k \in 1..Len(counts) |-> k], LAMBDA k : counts[k] > 0)

\* the candidate pushed for a complete count vector  (949-968)
searchCandidate(els, preferredOx, currentCounts) ==
    LET used == positiveIndices(currentCounts)
        part(k) == els[k].symbol \o
                   (IF currentCounts[k] > 1 THEN ToString(currentCounts[k]) ELSE "")
        info(k) == [symbol |-> els[k].symbol,
                    prefix |-> signPrefix(preferredOx[k]),
                    ox |-> preferredOx[k],
                    count |-> currentCounts[k]]
    IN  [formula |-> JoinStrings(MapSeq(part, used)),
         oxidationStates |-> MapSeq(info, used)]

\* variant: the correction is estimated with a state of magnitude 1
maxRemainingAbsOxUnit(preferredOx, elementIndex) == 1

\* Math.max(...preferredOxStates.slice(elementIndex + 1).map(|preferredOx|))
maxRemainingAbsOx(preferredOx, elementIndex) ==
    MathMax({Abs(preferredOx[k]) : k \in (elementIndex + 2)..Len(preferredOx)})

\* variant: the loop runs on after maxFormulas candidates
loopContinuesToMaxAtoms(count, st) == count <= maxAtoms /\ st.testedCount >= 0
\* count <= maxAtoms && testedCount < maxFormulas  (971)
loopContinues(count, st) == count <= maxAtoms /\ st.testedCount < maxFormulas

RECURSIVE findBalancedFormulas(_, _, _, _, _, _)
RECURSIVE countLoop(_, _, _, _, _, _, _)

\* st = [formulas, testedCount, ...]: the two variables the closure updates,
\* and a record of the execution: calls of the closure, of these the calls
\* made with maxFormulas reached (lateCalls), the largest elementIndex a call
\* had (deepest) and the largest count a loop tried (widest)
searchStart ==
    [formulas |-> <<>>, testedCount |-> 0, calls |-> 0, lateCalls |-> 0,
     deepest |-> 0, widest |-> 0]

entered(st, elementIndex) ==
    [st EXCEPT !.calls = @ + 1,
               !.lateCalls = IF st.testedCount >= maxFormulas THEN @ + 1 ELSE @,
               !.deepest = IF elementIndex > @ THEN elementIndex ELSE @]

findBalancedFormulas(els, preferredOx, elementIndex, currentCounts, currentCharge, st) ==
    IF st.testedCount >= maxFormulas THEN entered(st, elementIndex)
    ELSE IF elementIndex = Len(els)
    THEN IF currentCharge = 0
            /\ \E k \in 1..Len(currentCounts) : currentCounts[k] > 0
            /\ Len(positiveIndices(currentCounts)) >= 2
         THEN [entered(st, elementIndex) EXCEPT
                  !.formulas = Append(@, searchCandidate(els, preferredOx,
                                                         currentCounts)),
                  !.testedCount = @ + 1]
         ELSE entered(st, elementIndex)
    ELSE countLoop(els, preferredOx, elementIndex, 0, currentCounts,
                   currentCharge, entered(st, elementIndex))

\* for (let count = 0; count <= maxAtoms && testedCount < maxFormulas; count++)
countLoop(els, preferredOx, elementIndex, count, currentCounts, currentCharge, st) ==
    IF ~loopContinues(count, st) THEN st
    ELSE
      LET oxState == preferredOx[elementIndex + 1]
          newCounts == [currentCounts EXCEPT ![elementIndex + 1] = count]
          newCharge == currentCharge + (oxState * count)
          remainingElements == Len(els) - elementIndex - 1
          tried == [st EXCEPT !.widest = IF count > @ THEN count ELSE @]
          recurse == findBalancedFormulas(els, preferredOx, elementIndex + 1,
                                          newCounts, newCharge, tried)
          after ==
            IF elementIndex = Len(els) - 1
            THEN IF newCharge = 0 THEN recurse ELSE tried
            ELSE IF Abs(newCharge) <=
                      remainingElements * maxAtoms
                        * maxRemainingAbsOx(preferredOx, elementIndex)
                 THEN recurse ELSE tried
      IN  countLoop(els, preferredOx, elementIndex, count + 1, currentCounts,
                    currentCharge, after)

\* the candidate pushed by the fallback for elements i, j and (ox1, ox2)
\* (1017-1040)
fallbackCandidate(els, i, j, ox1, ox2) ==
    LET abs1 == Abs(ox1)
        abs2 == Abs(ox2)
        g == gcd(abs1, abs2)
        count1 == abs2 \div g
        count2 == abs1 \div g
        counts == [k \in 1..Len(els) |->
                      IF k = i + 1 THEN count1
                      ELSE IF k = j + 1 THEN count2 ELSE 0]
        used == positiveIndices(counts)
        part(k) == els[k].symbol \o
                   (IF counts[k] > 1 THEN ToString(counts[k]) ELSE "")
        info(k) == [symbol |-> els[k].symbol,
                    prefix |-> IF counts[k] > 0 THEN "+" ELSE "",
                    ox |-> IF k = i + 1 THEN ox1 ELSE ox2,
                    count |-> counts[k]]
    IN  [formula |-> JoinStrings(MapSeq(part, used)),
         oxidationStates |-> MapSeq(info, used)]

\* the two inner for-of loops over the states of elements i and j (1014-1043)
fallbackPairFormulas(els, oxStates, i, j) ==
    LET s1 == oxStates[i + 1]
        s2 == oxStates[j + 1]
        n2 == Len(s2)
        pairs == [k \in 1..(Len(s1) * n2) |->
                     <<s1[((k - 1) \div n2) + 1], s2[((k - 1) % n2) + 1]>>]
        opposite(p) == (p[1] > 0 /\ p[2] < 0) \/ (p[1] < 0 /\ p[2] > 0)
        cand(p) == fallbackCandidate(els, i, j, p[1], p[2])
    IN  MapSeq(cand, SelectSeq(pairs, opposite))

\* the loops over i and j, each guarded by formulas.length < 10 (1009-1010)
RECURSIVE fallbackLoop(_, _, _, _, _)
fallbackLoop(els, oxStates, i, j, formulas) ==
    IF ~(i < Len(els) - 1 /\ Len(formulas) < 10) THEN formulas
    ELSE IF ~(j < Len(els) /\ Len(formulas) < 10)
    THEN fallbackLoop(els, oxStates, i + 1, i + 2, formulas)
    ELSE fallbackLoop(els, oxStates, i, j + 1,
                      formulas \o fallbackPairFormulas(els, oxStates, i, j))

\* variant: the fallback runs after every primary search and adds to it
multiElementSearchThenFallback(els) ==
    LET oxStates == MapSeq(nonZeroOxStates, els)
        preferredOx == MapSeq(preferredOxOf, oxStates)
        primary == findBalancedFormulas(els, preferredOx, 0,
                                        [k \in 1..Len(els) |-> 0], 0,
                                        searchStart)
        fallback == fallbackLoop(els, oxStates, 0, 1, <<>>)
    IN  [primary |-> primary,
         fallbackRan |-> TRUE,
         fallback |-> fallback,
         formulas |-> primary.formulas \o fallback]

\* lines 920-1046: the primary search and, if it found none, the fallback;
\* [primary, fallbackRan, fallback, formulas]
multiElementSearch(els) ==
    LET oxStates == MapSeq(nonZeroOxStates, els)
        preferredOx == MapSeq(preferredOxOf, oxStates)
        primary == findBalancedFormulas(els, preferredOx, 0,
                                        [k \in 1..Len(els) |-> 0], 0,
                                        searchStart)
        fallback == IF primary.formulas = <<>>
                    THEN fallbackLoop(els, oxStates, 0, 1, <<>>)
                    ELSE <<>>
    IN  [primary |-> primary,
         fallbackRan |-> primary.formulas = <<>>,
         fallback |-> fallback,
         formulas |-> IF primary.formulas = <<>> THEN fallback
                      ELSE primary.formulas]

\* formulas after the primary search and, if it found none, the fallback
\* variant: the primary search alone, no fallback
multiElementFormulasPrimaryOnly(els) ==
    LET oxStates == MapSeq(nonZeroOxStates, els)
        preferredOx == MapSeq(preferredOxOf, oxStates)
    IN  findBalancedFormulas(els, preferredOx, 0, [k \in 1..Len(els) |-> 0], 0,
                             searchStart).formulas
multiElementFormulas(els) == multiElementSearch(els).formulas

\* formulas.slice(0, 20)
\* variant: the list returned uncut
sliceNone(formulas) == formulas
slice20(formulas) ==
    SubSeq(formulas, 1, IF Len(formulas) < 20 THEN Len(formulas) ELSE 20)

\* ${formulas.length > 1 ? 's' : ''}
plural(n) == IF n > 1 THEN "s" ELSE ""

analyzeMultiElementCompound(els, bondType, maxENDiff) ==
    LET missingOxStates ==
            SelectSeq(els, LAMBDA el : nonZeroOxStates(el) = <<>>)
        formulas == multiElementFormulas(els)
        assessed ==
            IF formulas = <<>>
            THEN [likelihood |-> "unlikely",
                  reason |-> <<"Unable to find charge-balanced combinations with available oxidation states.">>]
            ELSE IF Len(formulas) > 20
            THEN [likelihood |-> "possible but unstable",
                  reason |-> <<"Found " \o ToString(Len(formulas)) \o " possible charge-balanced formulas.",
                             "Multi-element compounds are often complex and may require specific conditions for stability.">>]
            ELSE IF maxENDiff > 150 /\ Len(formulas) >= 1
            THEN [likelihood |-> "possible but unstable",
                  reason |-> <<"Found " \o ToString(Len(formulas)) \o " possible formula" \o plural(Len(formulas)) \o " with mixed ionic/covalent character.",
                             "Complex multi-element compounds may form under specific conditions.">>]
            ELSE [likelihood |-> "possible but unstable",
                  reason |-> <<"Found " \o ToString(Len(formulas)) \o " charge-balanced formula" \o plural(Len(formulas)) \o " with primarily covalent character.",
                             "Multi-element organic/molecular compounds may be stable but require specific structural knowledge.">>]
    IN  IF missingOxStates # <<>>
        THEN [likelihood |-> "unlikely",
              formulas |-> <<>>,
              bondType |-> bondType,
              reason |-> <<"Elements lack non-zero oxidation states needed for compound formation.">>,
              elements |-> els,
              enDiff |-> maxENDiff]
        ELSE [likelihood |-> assessed.likelihood,
              formulas |-> slice20(formulas),
              bondType |-> bondType,
              reason |-> assessed.reason,
              elements |-> els,
              enDiff |-> maxENDiff]

\* ------------------------------------------------------------------------
\* User-formula validator (validateChargeBalance 1209-1260,
\* analyzeUserFormula 1104-1207)
\* ------------------------------------------------------------------------
RECURSIVE findBalance(_, _, _, _)
RECURSIVE tryOxStates(_, _, _, _, _)

\* null is written as the empty sequence: a found assignment has one entry
\* per counted element and is never empty
findBalance(elementOxStates, index, currentCharge, selectedOxStates) ==
    IF index = Len(elementOxStates)
    THEN IF currentCharge = 0 THEN selectedOxStates ELSE <<>>
    ELSE tryOxStates(elementOxStates, index, 1, currentCharge, selectedOxStates)

\* for (const oxState of current.oxStates), from the k-th state on
tryOxStates(elementOxStates, index, k, currentCharge, selectedOxStates) ==
    LET current == elementOxStates[index + 1]
    IN  IF k > Len(current.oxStates) THEN <<>>
        ELSE
          LET oxState == current.oxStates[k]
              newCharge == currentCharge + (oxState * current.count)
              result == findBalance(elementOxStates, index + 1, newCharge,
                            Append(selectedOxStates,
                                   [element |-> current.element,
                                    oxState |-> oxState,
                                    count |-> current.count]))
          IN  IF result # <<>> THEN result
              ELSE tryOxStates(elementOxStates, index, k + 1, currentCharge,
                               selectedOxStates)

\* the execution of findBalance (1226-1241) for the same arguments: whether
\* an assignment was found, the calls made and the largest index a call had
RECURSIVE findBalanceRun(_, _, _, _)
RECURSIVE tryOxStatesRun(_, _, _, _, _)
findBalanceRun(elementOxStates, index, currentCharge, run) ==
    LET here == [run EXCEPT !.calls = @ + 1,
                            !.deepest = IF index > @ THEN index ELSE @]
    IN  IF index = Len(elementOxStates)
        THEN [here EXCEPT !.found = (currentCharge = 0)]
        ELSE tryOxStatesRun(elementOxStates, index, 1, currentCharge, here)
tryOxStatesRun(elementOxStates, index, k, currentCharge, run) ==
    LET current == elementOxStates[index + 1]
    IN  IF k > Len(current.oxStates) THEN [run EXCEPT !.found = FALSE]
        ELSE
          LET newCharge == currentCharge + (current.oxStates[k] * current.count)
              result == findBalanceRun(elementOxStates, index + 1, newCharge, run)
          IN  IF result.found THEN result
              ELSE tryOxStatesRun(elementOxStates, index, k + 1, currentCharge,
                                  result)
\* the execution of validateChargeBalance: no call of findBalance when an
\* element has no state (1218-1223)
validateChargeBalanceRun(elementCounts) ==
    LET eos(ec) == [element |-> ec.element, count |-> ec.count,
                    oxStates |-> nonZeroOxStates(ec.element)]
        elementOxStates == MapSeq(eos, elementCounts)
        start == [found |-> FALSE, calls |-> 0, deepest |-> 0]
    IN  IF \E k \in 1..Len(elementOxStates) : elementOxStates[k].oxStates = <<>>
        THEN start
        ELSE findBalanceRun(elementOxStates, 0, 0, start)

\* variant: each element's states are tried from the last listed to the first
validateChargeBalanceBackwards(elementCounts) ==
    LET backwards(list) == [i \in 1..Len(list) |-> list[Len(list) + 1 - i]]
        eos(ec) == [element |-> ec.element, count |-> ec.count,
                    oxStates |-> backwards(nonZeroOxStates(ec.element))]
        elementOxStates == MapSeq(eos, elementCounts)
        balancedStates == findBalance(elementOxStates, 0, 0, <<>>)
        oxInfo(bs) == [symbol |-> bs.element.symbol,
                       prefix |-> signPrefix(bs.oxState),
                       ox |-> bs.oxState,
                       count |-> bs.count]
    IN  IF \E k \in 1..Len(elementOxStates) : elementOxStates[k].oxStates = <<>>
        THEN [balanced |-> FALSE,
              reason |-> "Some elements lack defined oxidation states."]
        ELSE IF balancedStates # <<>>
        THEN [balanced |-> TRUE,
              oxidationStates |-> MapSeq(oxInfo, balancedStates)]
        ELSE [balanced |-> FALSE,
              reason |-> "Could not find oxidation states that balance the total charge to zero."]

validateChargeBalance(elementCounts) ==
    LET eos(ec) == [element |-> ec.element, count |-> ec.count,
                    oxStates |-> nonZeroOxStates(ec.element)]
        elementOxStates == MapSeq(eos, elementCounts)
        balancedStates == findBalance(elementOxStates, 0, 0, <<>>)
        oxInfo(bs) == [symbol |-> bs.element.symbol,
                       prefix |-> signPrefix(bs.oxState),
                       ox |-> bs.oxState,
                       count |-> bs.count]
    IN  IF \E k \in 1..Len(elementOxStates) : elementOxStates[k].oxStates = <<>>
        THEN [balanced |-> FALSE,
              reason |-> "Some elements lack defined oxidation states."]
        ELSE IF balancedStates # <<>>
        THEN [balanced |-> TRUE,
              oxidationStates |-> MapSeq(oxInfo, balancedStates)]
        ELSE [balanced |-> FALSE,
              reason |-> "Could not find oxidation states that balance the total charge to zero."]

\* elementCounts is the array already sorted by line 1106
analyzeUserFormula(reg, elementCounts, els) ==
    LET part(ec) == formulaPart(ec.element.symbol, ec.count)
        userFormula == JoinStrings(MapSeq(part, elementCounts))
        nobleGases ==
            SelectSeq(elementCounts, LAMBDA ec : isNobleGas(ec.element))
        en(ec) == getElectronegativity(ec.element.atomicNumber)
        electronegativities == MapSeq(en, elementCounts)
        missingEN == SelectSeq(electronegativities, isMissing)
        maxENDiff == maxENDiffOf(electronegativities)
        bondType == classifyBond(maxENDiff)
        chargeAnalysis == validateChargeBalance(elementCounts)
        isCommonPattern == checkCommonPattern(reg, elementCounts)
        assessed ==
            IF chargeAnalysis.balanced
            THEN IF isCommonPattern # ""
                 THEN [likelihood |-> "likely",
                       reason |-> <<"Your formula is charge-balanced and matches known stable compound patterns.",
                                    isCommonPattern>>]
                 ELSE IF bondType = "ionic" /\ maxENDiff > 170
                 THEN [likelihood |-> "likely",
                       reason |-> <<"Your formula is charge-balanced with strong ionic character. This suggests a stable ionic compound.">>]
                 ELSE IF maxENDiff > 40
                 THEN [likelihood |-> "likely",
                       reason |-> <<"Your formula is charge-balanced. This could form a stable compound.">>]
                 ELSE [likelihood |-> "possible but unstable",
                       reason |-> <<"Your formula is charge-balanced but has weak electronegativity differences. May require specific molecular structure.">>]
            ELSE [likelihood |-> "possible but unstable",
                  reason |-> <<"Your formula does not achieve perfect charge balance with common oxidation states.",
                               chargeAnalysis.reason,
                               "The compound may still exist but could be unstable or require unusual bonding.">>]
    IN  IF nobleGases # <<>>
        THEN [likelihood |-> "unlikely",
              formulas |-> <<[formula |-> userFormula, oxidationStates |-> <<>>]>>,
              bondType |-> "none",
              reason |-> <<"Noble gas with a complete valence shell will not readily form compounds.">>,
              elements |-> els,
              userSpecified |-> TRUE]
        ELSE IF missingEN # <<>>
        THEN [likelihood |-> "possible but unstable",
              formulas |-> <<[formula |-> userFormula, oxidationStates |-> <<>>]>>,
              bondType |-> "unknown",
              reason |-> <<"Insufficient electronegativity data available for complete analysis of your formula.">>,
              elements |-> els,
              userSpecified |-> TRUE]
        ELSE [likelihood |-> assessed.likelihood,
              formulas |-> <<[formula |-> userFormula,
                              oxidationStates |->
                                 IF chargeAnalysis.balanced
                                 THEN chargeAnalysis.oxidationStates
                                 ELSE <<>>]>>,
              bondType |-> bondType,
              reason |-> assessed.reason,
              elements |-> els,
              enDiff |-> maxENDiff,
              userSpecified |-> TRUE]

\* ------------------------------------------------------------------------
\* analyzeCompound (735-807)
\* ------------------------------------------------------------------------
\* userSpecifiedCounts && userSpecifiedCounts.length > 0
\* variant: an empty list of counts is taken for a user formula too
hasCountsWhenGiven(counts) == ~counts.isNull
hasCounts(counts) == ~counts.isNull /\ Len(counts.items) > 0

\* the analysis returned for the caller's arrays, under a given registry
analyzeCompoundWith(reg, callerElements, counts) ==
    LET els == sortElements(callerElements)
        nobleGases == SelectSeq(els, isNobleGas)
        en(el) == getElectronegativity(el.atomicNumber)
        electronegativities == MapSeq(en, els)
        missingEN == SelectSeq(electronegativities, isMissing)
        symbolOf(el) == el.symbol
        maxENDiff == maxENDiffOf(electronegativities)
        bondType == classifyBond(maxENDiff)
    IN  IF hasCounts(counts)
        THEN analyzeUserFormula(reg, sortElementCounts(counts.items), els)
        ELSE IF nobleGases # <<>>
        THEN [likelihood |-> "unlikely",
              formulas |-> <<>>,
              bondType |-> "none",
              reason |-> <<"Noble gas with a complete valence shell will not readily form compounds.">>,
              elements |-> els]
        ELSE IF missingEN # <<>>
        \* the joined symbols are pushed as a bare string: a candidate
        \* without an assignment
        THEN [likelihood |-> "possible but unstable",
              formulas |-> <<[formula |-> JoinStrings(MapSeq(symbolOf, els)),
                              oxidationStates |-> <<>>]>>,
              bondType |-> "unknown",
              reason |-> <<"Insufficient electronegativity data available for complete analysis.">>,
              elements |-> els]
        ELSE IF Len(els) = 2
        THEN analyzeBinaryCompound(reg, els[1], els[2], bondType, maxENDiff)
        ELSE analyzeMultiElementCompound(els, bondType, maxENDiff)

\* variant: the user-formula branch falls through without a return value
analyzeCompoundDroppingUserFormula(callerElements, counts) ==
    IF hasCounts(counts) THEN <<>>
    ELSE analyzeCompoundWith(Registry, callerElements, counts)
analyzeCompound(callerElements, counts) ==
    analyzeCompoundWith(Registry, callerElements, counts)

\* ------------------------------------------------------------------------
\* Calls of analyzeCompound
\* ------------------------------------------------------------------------
\* ascending sequence of the members of a set of integers
RECURSIVE ascending(_)
ascending(S) ==
    IF S = {} THEN <<>>
    ELSE LET m == CHOOSE x \in S : \A y \in S : x <= y
         IN  <<m>> \o ascending(S \ {m})

\* the orders in which a caller may list a set of elements: every rotation
\* of the ascending and of the descending arrangement (for up to three
\* elements these are all the permutations)
Arrangements(S) ==
    LET numbers == ascending({el.atomicNumber : el \in S})
        n == Len(numbers)
        elementOf(a) == CHOOSE el \in S : el.atomicNumber = a
        asc == MapSeq(elementOf, numbers)
        desc == [i \in 1..n |-> asc[n + 1 - i]]
        rotate(s, r) == [i \in 1..n |-> s[((i - 1 + r) % n) + 1]]
    IN  {rotate(asc, r) : r \in 0..(n - 1)} \cup {rotate(desc, r) : r \in 0..(n - 1)}

\* element arrays: 2..MaxElements records of pairwise distinct atomic number
ElementLists ==
    UNION {Arrangements(S) :
              S \in {T \in SUBSET Catalog :
                        Cardinality(T) >= 2 /\ Cardinality(T) <= MaxElements}}

\* the counts buildCompound can pass for one element: parseInt(value) || 1
\* is any nonzero integer; the positive counts and -1 stand for them
CountValues == (1..MaxFormulaAtoms) \cup {-1}

RECURSIVE sumAbs(_)
sumAbs(v) == IF v = <<>> THEN 0 ELSE Abs(Head(v)) + sumAbs(Tail(v))

\* counts arguments for an element array: absent (the parameter's default),
\* empty, or as buildCompound builds them: one entry per element, in the
\* array's order; at most MaxFormulaAtoms atoms in all
CountArguments(els) ==
    {[isNull |-> TRUE, items |-> <<>>], [isNull |-> FALSE, items |-> <<>>]}
    \cup
    {[isNull |-> FALSE,
      items |-> [k \in 1..Len(els) |-> [element |-> els[k], count |-> v[k]]]] :
        v \in {w \in [1..Len(els) -> CountValues] :
                  sumAbs(w) <= MaxFormulaAtoms}}

NoAnalysis == <<>>
\* no return value yet
NoResult == [pending |-> TRUE]
NoSolver == [op |-> "none", args |-> [none |-> TRUE], done |-> FALSE, result |-> NoResult]

\* the client object as its constructor leaves it: nothing selected, no
\* socket yet; the Build button is disabled in the page's markup
maxReconnectAttempts == 5
PageConstructed ==
    /\ selectedElements = <<>>
    /\ buildBtnDisabled = TRUE
SocketConstructed ==
    /\ sockets = <<>>
    /\ connected = FALSE
    /\ reconnectAttempts = 0
    /\ timers = <<>>

\* the server object as its constructor leaves it: no client yet
Connections == 1..MaxConnections
ServerConstructed ==
    /\ clients = {}
    /\ readyState = [c \in Connections |-> "NONE"]
    /\ sent = [c \in Connections |-> <<>>]
    /\ inbox = <<>>
    /\ running = TRUE

Init ==
    /\ elements \in ElementLists
    /\ userSpecifiedCounts \in CountArguments(elements)
    /\ analysis = NoAnalysis
    /\ argsAtCall = [elements |-> elements, counts |-> userSpecifiedCounts]
    /\ pc = "call"
    /\ solver = NoSolver
    /\ PageConstructed
    /\ SocketConstructed
    /\ ServerConstructed

\* one call: both arrays are sorted in place, the analysis is returned
AnalyzeCompound ==
    /\ pc = "call"
    /\ analysis' = analyzeCompound(elements, userSpecifiedCounts)
    /\ elements' = sortElements(elements)
    /\ userSpecifiedCounts' =
          IF hasCounts(userSpecifiedCounts)
          THEN [userSpecifiedCounts EXCEPT !.items = sortElementCounts(@)]
          ELSE userSpecifiedCounts
    /\ pc' = "done"
    /\ UNCHANGED <<argsAtCall, solver, pageVars, socketVars, serverVars>>

Next == AnalyzeCompound

Spec == Init /\ [][Next]_vars

\* ------------------------------------------------------------------------
\* Calls with records of any oxidation-state list: the records reach the
\* client from the server's data file, so a record may carry any list
\* ------------------------------------------------------------------------
StateLists ==
    {<<>>, <<0>>, <<1>>, <<1, 2>>, <<-1>>, <<-2, -1>>, <<-1, 0, 1>>}

\* the record of an element with another oxidationStates list, or none
withoutStates(el) ==
    [atomicNumber |-> el.atomicNumber, symbol |-> el.symbol,
     category |-> el.category]
withStates(el, list) ==
    [atomicNumber |-> el.atomicNumber, symbol |-> el.symbol,
     category |-> el.category, oxidationStates |-> list]
RecordsOf(el) == {withoutStates(el)} \cup {withStates(el, l) : l \in StateLists}

\* two or three of Hydrogen, Oxygen and Calcium, in ascending or in
\* descending order, each with any of the lists
AnyStatesLists ==
    LET pairs == {<<Hydrogen, Oxygen>>, <<Hydrogen, Calcium>>, <<Oxygen, Calcium>>}
        two == UNION {RecordsOf(p[1]) \X RecordsOf(p[2]) : p \in pairs}
        three == RecordsOf(Hydrogen) \X RecordsOf(Oxygen) \X RecordsOf(Calcium)
        reversed(t) == [i \in 1..Len(t) |-> t[Len(t) + 1 - i]]
    IN  (two \cup three) \cup {reversed(t) : t \in two \cup three}

AnyStatesInit ==
    /\ elements \in AnyStatesLists
    /\ userSpecifiedCounts \in
          {[isNull |-> TRUE, items |-> <<>>], [isNull |-> FALSE, items |-> <<>>]}
    /\ analysis = NoAnalysis
    /\ argsAtCall = [elements |-> elements, counts |-> userSpecifiedCounts]
    /\ pc = "call"
    /\ solver = NoSolver
    /\ PageConstructed
    /\ SocketConstructed
    /\ ServerConstructed

AnyStatesSpec == AnyStatesInit /\ [][Next]_vars

\* ------------------------------------------------------------------------
\* The page: the element cards, the selection, the Build and Clear buttons
\* (toggleElementSelection, updateSelectedElementsDisplay,
\* clearElementSelection, buildCompound), and the client's WebSocket
\* (setupWebSocket, attemptReconnect)
\* ------------------------------------------------------------------------
\* the elements the page has loaded; each is rendered as one card
LoadedElements == <<Hydrogen, Helium, Oxygen>>
CardNumbers == {LoadedElements[i].atomicNumber : i \in 1..Len(LoadedElements)}

\* a JavaScript Set of numbers iterates in insertion order: a sequence
\* without repetition
setHas(set, n) == \E i \in 1..Len(set) : set[i] = n
setDelete(set, n) == SelectSeq(set, LAMBDA x : x # n)
setAdd(set, n) == IF setHas(set, n) THEN set ELSE Append(set, n)

toggleElementSelection(selection, atomicNumber) ==
    IF setHas(selection, atomicNumber)
    THEN setDelete(selection, atomicNumber)
    ELSE setAdd(selection, atomicNumber)

\* variant: the button stays disabled only for the empty selection
updateSelectedElementsDisplayFromOne(selection) ==
    IF Len(selection) = 0 THEN TRUE ELSE Len(selection) < 1

\* the disabled property updateSelectedElementsDisplay gives the Build button
updateSelectedElementsDisplay(selection) ==
    IF Len(selection) = 0 THEN TRUE ELSE Len(selection) < 2

\* the values a count field may hold when Build is clicked, and parseInt
\* of each: [nan, value]
FieldValues == {"", "0", "2", "-2"}
parseInt(text) ==
    CASE text = "0" -> [nan |-> FALSE, value |-> 0]
      [] text = "2" -> [nan |-> FALSE, value |-> 2]
      [] text = "-2" -> [nan |-> FALSE, value |-> -2]
      [] OTHER -> [nan |-> TRUE, value |-> 0]

\* parseInt(countInput.value) || 1
countFromField(text) ==
    LET n == parseInt(text)
    IN  IF n.nan \/ n.value = 0 THEN 1 ELSE n.value

\* this.elements.find(el => el.atomicNumber === atomicNum): the one-element
\* sequence of the record found, the empty sequence for undefined
findElement(atomicNum) ==
    LET found == SelectSeq(LoadedElements, LAMBDA el : el.atomicNumber = atomicNum)
    IN  IF found = <<>> THEN <<>> ELSE <<Head(found)>>

\* the two arrays buildCompound builds from the selection and the fields;
\* filter(el => el) drops what find did not find
RECURSIVE selectedElementsArray(_)
selectedElementsArray(selection) ==
    IF selection = <<>> THEN <<>>
    ELSE findElement(Head(selection)) \o selectedElementsArray(Tail(selection))
RECURSIVE elementCountItems(_, _)
elementCountItems(selection, fields) ==
    IF selection = <<>> THEN <<>>
    ELSE LET n == Head(selection)
             here == IF findElement(n) = <<>> THEN <<>>
                     ELSE <<[element |-> Head(findElement(n)),
                             count |-> countFromField(fields[n])]>>
         IN  here \o elementCountItems(Tail(selection), fields)
elementCounts(selection, fields) ==
    [isNull |-> FALSE, items |-> elementCountItems(selection, fields)]

\* no call of analyzeCompound is being looked at
NoCall ==
    /\ elements = <<>>
    /\ userSpecifiedCounts = [isNull |-> TRUE, items |-> <<>>]
    /\ analysis = NoAnalysis
    /\ argsAtCall = [elements |-> <<>>, counts |-> [isNull |-> TRUE, items |-> <<>>]]
    /\ pc = "idle"
    /\ solver = NoSolver
ForgetCall ==
    /\ elements' = <<>>
    /\ userSpecifiedCounts' = [isNull |-> TRUE, items |-> <<>>]
    /\ analysis' = NoAnalysis
    /\ argsAtCall' = [elements |-> <<>>, counts |-> [isNull |-> TRUE, items |-> <<>>]]
    /\ pc' = "idle"
    /\ solver' = NoSolver

\* the delay of the reconnect attempt that brings the counter to attempts
MathMin(a, b) == IF a <= b THEN a ELSE b

\* variant: the delay is not capped
reconnectDelayUncapped(attempts) == 1000 * (2 ^ attempts)

reconnectDelay(attempts) == MathMin(1000 * (2 ^ attempts), 30000)

removeAt(s, i) == SubSeq(s, 1, i - 1) \o SubSeq(s, i + 1, Len(s))

\* after init(): the first socket is connecting
ClientInit ==
    /\ NoCall
    /\ PageConstructed
    /\ sockets = <<"CONNECTING">>
    /\ connected = FALSE
    /\ reconnectAttempts = 0
    /\ timers = <<>>
    /\ ServerConstructed

\* a click on an element card: toggleElementSelection, then
\* updateSelectedElementsDisplay
ElementClick(atomicNumber) ==
    /\ selectedElements' = toggleElementSelection(selectedElements, atomicNumber)
    /\ buildBtnDisabled' = updateSelectedElementsDisplay(selectedElements')
    /\ ForgetCall
    /\ UNCHANGED <<socketVars, serverVars>>

\* a click on Clear Selection: clearElementSelection
ClearClick ==
    /\ selectedElements' = <<>>
    /\ buildBtnDisabled' = updateSelectedElementsDisplay(selectedElements')
    /\ ForgetCall
    /\ UNCHANGED <<socketVars, serverVars>>

\* a click on Build Compound (a disabled button takes no click):
\* buildCompound reads the count fields and calls analyzeCompound, which
\* sorts the two arrays in place
BuildClick ==
    /\ ~buildBtnDisabled
    /\ \E fields \in [{selectedElements[i] : i \in 1..Len(selectedElements)} -> FieldValues] :
          IF Len(selectedElements) < 2
          THEN ForgetCall
          ELSE LET els == selectedElementsArray(selectedElements)
                   counts == elementCounts(selectedElements, fields)
               IN  /\ argsAtCall' = [elements |-> els, counts |-> counts]
                   /\ analysis' = analyzeCompound(els, counts)
                   /\ elements' = sortElements(els)
                   /\ userSpecifiedCounts' =
                         [counts EXCEPT !.items = sortElementCounts(@)]
                   /\ pc' = "done"
    /\ UNCHANGED <<solver, pageVars, socketVars, serverVars>>

\* onopen of one of the client's sockets
SocketOpen(i) ==
    /\ sockets[i] = "CONNECTING"
    /\ sockets' = [sockets EXCEPT ![i] = "OPEN"]
    /\ connected' = TRUE
    /\ reconnectAttempts' = 0
    /\ ForgetCall
    /\ UNCHANGED <<timers, pageVars, serverVars>>

\* onclose of one of the client's sockets, connected or still connecting
\* (onerror before it only logs): attemptReconnect
SocketClose(i) ==
    /\ sockets' = removeAt(sockets, i)
    /\ connected' = FALSE
    /\ IF reconnectAttempts < maxReconnectAttempts
       THEN /\ reconnectAttempts' = reconnectAttempts + 1
            /\ timers' = Append(timers, reconnectDelay(reconnectAttempts'))
       ELSE UNCHANGED <<reconnectAttempts, timers>>
    /\ ForgetCall
    /\ UNCHANGED <<pageVars, serverVars>>

\* variant: the timer stays pending after it has fired
ReconnectTimeoutRepeating(j) ==
    /\ timers' = timers
    /\ sockets' = Append(sockets, "CONNECTING")
    /\ ForgetCall
    /\ UNCHANGED <<connected, reconnectAttempts, pageVars, serverVars>>
\* a reconnect timeout fires: setupWebSocket creates the next socket
ReconnectTimeout(j) ==
    /\ timers' = removeAt(timers, j)
    /\ sockets' = Append(sockets, "CONNECTING")
    /\ ForgetCall
    /\ UNCHANGED <<connected, reconnectAttempts, pageVars, serverVars>>

ClientNext ==
    \/ \E n \in CardNumbers : ElementClick(n)
    \/ ClearClick
    \/ BuildClick
    \/ \E i \in 1..Len(sockets) : SocketOpen(i)
    \/ \E i \in 1..Len(sockets) : SocketClose(i)
    \/ \E j \in 1..Len(timers) : ReconnectTimeout(j)

ClientSpec == ClientInit /\ [][ClientNext]_vars

\* ------------------------------------------------------------------------
\* The server's WebSocket endpoint (src/server.js: setupWebSocket,
\* handleMessage, broadcastClientCount)
\*  - a text (name, symbol, query) is the sequence of its characters;
\*  - a message is what the socket delivers: [valid, data], valid false for
\*    a text JSON.parse rejects; data is the parsed value, an object being a
\*    record that lacks the properties the object lacks;
\*  - a socket goes from OPEN to CLOSING when the closing handshake starts
\*    and to CLOSED when its 'close' event is emitted.
\* ------------------------------------------------------------------------
serverElements ==
    << [atomicNumber |-> 1, symbol |-> <<"H">>,
        name |-> <<"H", "y", "d", "r", "o", "g", "e", "n">>],
       [atomicNumber |-> 2, symbol |-> <<"H", "e">>,
        name |-> <<"H", "e", "l", "i", "u", "m">>],
       [atomicNumber |-> 8, symbol |-> <<"O">>,
        name |-> <<"O", "x", "y", "g", "e", "n">>] >>

toLowerCaseChar(ch) ==
    CASE ch = "H" -> "h"
      [] ch = "O" -> "o"
      [] ch = "X" -> "x"
      [] OTHER -> ch
toLowerCase(text) == [i \in 1..Len(text) |-> toLowerCaseChar(text[i])]
includes(text, part) ==
    \E i \in 0..(Len(text) - Len(part)) : SubSeq(text, i + 1, i + Len(part)) = part

\* an object without any of the properties the server reads
otherObject == [other |-> 0]
stringValue(text) == [type |-> "string", value |-> text]
numberValue(n) == [type |-> "number", number |-> n]

\* the messages a client may send
Messages ==
    { [valid |-> FALSE],
      [valid |-> TRUE, data |-> [isNull |-> TRUE]],
      [valid |-> TRUE, data |-> otherObject],
      [valid |-> TRUE, data |-> [type |-> "HELLO"]],
      [valid |-> TRUE, data |-> [type |-> "PING"]],
      [valid |-> TRUE, data |-> [type |-> "GET_ELEMENT"]],
      [valid |-> TRUE, data |-> [type |-> "GET_ELEMENT", payload |-> otherObject]],
      [valid |-> TRUE, data |-> [type |-> "SEARCH"]],
      [valid |-> TRUE, data |-> [type |-> "SEARCH", payload |-> otherObject]],
      [valid |-> TRUE, data |-> [type |-> "SEARCH", payload |-> [query |-> numberValue(8)]]] }
    \cup
    { [valid |-> TRUE, data |-> [type |-> "GET_ELEMENT", payload |-> [atomicNumber |-> n]]] :
          n \in {1, 8, 999} }
    \cup
    { [valid |-> TRUE, data |-> [type |-> "SEARCH", payload |-> [query |-> stringValue(q)]]] :
          q \in {<<>>, <<"h">>, <<"H", "e">>, <<"X">>, <<"z">>} }

\* what a call returns or throws: [threw, replies], replies being the
\* messages it sent on ws before it returned or threw
returned(replies) == [threw |-> FALSE, replies |-> replies]
threw == [threw |-> TRUE, replies |-> <<>>]

\* this.elements.find(el => el.atomicNumber === data.payload.atomicNumber)
\*   || null
findByAtomicNumber(payload) ==
    LET found == IF "atomicNumber" \in DOMAIN payload
                 THEN SelectSeq(serverElements,
                                LAMBDA el : el.atomicNumber = payload.atomicNumber)
                 ELSE <<>>
    IN  IF found = <<>> THEN [isNull |-> TRUE] ELSE Head(found)

searchResults(query) ==
    SelectSeq(serverElements,
              LAMBDA el : \/ includes(toLowerCase(el.name), query)
                          \/ includes(toLowerCase(el.symbol), query))

\* handleMessage(ws, data): reading a property of null or undefined, or
\* calling toLowerCase on what is no string, throws a TypeError
handleMessage(data) ==
    IF "isNull" \in DOMAIN data THEN threw
    ELSE IF "type" \notin DOMAIN data THEN returned(<<>>)
    ELSE CASE data.type = "GET_ELEMENT" ->
                IF "payload" \notin DOMAIN data THEN threw
                ELSE returned(<<[type |-> "ELEMENT_DATA",
                                 payload |-> findByAtomicNumber(data.payload)]>>)
           [] data.type = "SEARCH" ->
                IF "payload" \notin DOMAIN data THEN threw
                ELSE IF "query" \notin DOMAIN data.payload THEN threw
                ELSE IF data.payload.query.type # "string" THEN threw
                ELSE returned(<<[type |-> "SEARCH_RESULTS",
                                 payload |-> searchResults(
                                     toLowerCase(data.payload.query.value))]>>)
           [] data.type = "PING" -> returned(<<[type |-> "PONG"]>>)
           [] OTHER -> returned(<<>>)

\* variant: the listener without its try/catch
onMessageUnguarded(message) ==
    IF ~message.valid THEN threw
    ELSE handleMessage(message.data)

\* the 'message' listener: JSON.parse and handleMessage inside try/catch,
\* so that nothing is thrown out of it
onMessage(message) ==
    IF ~message.valid THEN returned(<<>>)
    ELSE returned(handleMessage(message.data).replies)

\* variant: the count is the number of sockets that are open
broadcastClientCountOfOpen(set, states, outbox) ==
    LET message == [type |-> "CLIENT_COUNT",
                    payload |-> [count |-> Cardinality({c \in set : states[c] = "OPEN"})]]
    IN  [c \in Connections |->
            IF c \in set /\ states[c] = "OPEN"
            THEN Append(outbox[c], message) ELSE outbox[c]]

\* broadcastClientCount: the outbox after it
broadcastClientCount(set, states, outbox) ==
    LET message == [type |-> "CLIENT_COUNT",
                    payload |-> [count |-> Cardinality(set)]]
    IN  [c \in Connections |->
            IF c \in set /\ states[c] = "OPEN"
            THEN Append(outbox[c], message) ELSE outbox[c]]

welcome(set) ==
    [type |-> "WELCOME",
     payload |-> [totalElements |-> Len(serverElements),
                  connectedClients |-> Cardinality(set)]]

ServerInit ==
    /\ ServerConstructed
    /\ NoCall
    /\ PageConstructed
    /\ SocketConstructed

\* 'connection': a new socket, open
Connection(ws) ==
    /\ running
    /\ readyState[ws] = "NONE"
    /\ readyState' = [readyState EXCEPT ![ws] = "OPEN"]
    /\ clients' = clients \cup {ws}
    /\ sent' = broadcastClientCount(clients', readyState',
                    [sent EXCEPT ![ws] = Append(@, welcome(clients'))])
    /\ UNCHANGED <<inbox, running, callVars, pageVars, socketVars>>

\* the closing handshake of a socket starts; no listener of the server runs
Closing(ws) ==
    /\ running
    /\ readyState[ws] = "OPEN"
    /\ readyState' = [readyState EXCEPT ![ws] = "CLOSING"]
    /\ UNCHANGED <<clients, sent, inbox, running, callVars, pageVars, socketVars>>

\* 'close' of a socket, after a handshake or without one
Close(ws) ==
    /\ running
    /\ readyState[ws] \in {"OPEN", "CLOSING"}
    /\ readyState' = [readyState EXCEPT ![ws] = "CLOSED"]
    /\ clients' = clients \ {ws}
    /\ sent' = broadcastClientCount(clients', readyState', sent)
    /\ UNCHANGED <<inbox, running, callVars, pageVars, socketVars>>

\* 'message' on an open socket; an exception no listener catches ends the
\* process
Message(ws, message) ==
    /\ running
    /\ readyState[ws] = "OPEN"
    /\ Len(inbox) < MaxMessages
    /\ inbox' = Append(inbox, [ws |-> ws, message |-> message])
    /\ sent' = [sent EXCEPT ![ws] = @ \o onMessage(message).replies]
    /\ running' = ~onMessage(message).threw
    /\ UNCHANGED <<clients, readyState, callVars, pageVars, socketVars>>

ServerNext ==
    \/ \E ws \in Connections : Connection(ws)
    \/ \E ws \in Connections : Closing(ws)
    \/ \E ws \in Connections : Close(ws)
    \/ \E ws \in Connections : \E message \in Messages : Message(ws, message)

ServerSpec == ServerInit /\ [][ServerNext]_vars

\* ------------------------------------------------------------------------
\* Steps of the solvers, each applied on its own to inputs of its kind:
\* the formula search of analyzeMultiElementCompound (920-1046),
\* validateChargeBalance (1209-1260) and gcd (1100-1102)
\* ------------------------------------------------------------------------
\* lists of states with a nonzero state: the search runs only for these
SearchStateLists ==
    {<<1>>, <<-1, 0, 1>>, <<-2, -1>>, <<3>>, <<-3>>, <<2, -2>>}

\* three elements in ascending atomic number, as analyzeCompound passes
\* them: Hydrogen, Oxygen and Calcium with any of the lists, and records of
\* the catalog
SearchLists ==
    {<<withStates(Hydrogen, a), withStates(Oxygen, b), withStates(Calcium, c)>> :
        a \in SearchStateLists, b \in SearchStateLists, c \in SearchStateLists}
    \cup {<<Hydrogen, Carbon, Oxygen>>, <<Carbon, Nitrogen, Calcium>>,
          <<Hydrogen, Nitrogen, Fluorine>>}

\* the counts lists validateChargeBalance is applied to: one entry per
\* element, ascending, for the arrays of the search, for two elements, and
\* for arrays with an element that has no nonzero state
ValidatorElements ==
    SearchLists
    \cup {<<Hydrogen, Oxygen>>, <<Carbon, Oxygen>>, <<Oxygen, Calcium>>,
          <<Hydrogen, withStates(Oxygen, <<0>>), Calcium>>,
          <<Hydrogen, Oxygen, Rhodium>>}
ValidatorLists ==
    {[k \in 1..Len(els) |-> [element |-> els[k], count |-> counts[k]]] :
        els \in ValidatorElements, counts \in [1..3 -> {1, 2}]}

\* the largest magnitude of an oxidation state gcd is applied to
MaxOxidationState == 8

SolverInit ==
    /\ solver \in
          {[op |-> "multiElementSearch", args |-> [elements |-> els],
            done |-> FALSE, result |-> NoResult] : els \in SearchLists}
          \cup
          {[op |-> "validateChargeBalance", args |-> [elementCounts |-> items],
            done |-> FALSE, result |-> NoResult] : items \in ValidatorLists}
          \cup
          {[op |-> "gcd", args |-> [a |-> a, b |-> b], done |-> FALSE,
            result |-> NoResult] :
              a \in 1..MaxOxidationState, b \in 1..MaxOxidationState}
    /\ elements = <<>>
    /\ userSpecifiedCounts = [isNull |-> TRUE, items |-> <<>>]
    /\ analysis = NoAnalysis
    /\ argsAtCall = [elements |-> <<>>, counts |-> [isNull |-> TRUE, items |-> <<>>]]
    /\ pc = "idle"
    /\ PageConstructed
    /\ SocketConstructed
    /\ ServerConstructed

Solved(result) ==
    /\ ~solver.done
    /\ solver' = [solver EXCEPT !.done = TRUE, !.result = result]
    /\ UNCHANGED <<elements, userSpecifiedCounts, analysis, argsAtCall, pc,
                   pageVars, socketVars, serverVars>>

MultiElementSearch ==
    /\ solver.op = "multiElementSearch"
    /\ Solved(multiElementSearch(solver.args.elements))

ValidateChargeBalance ==
    /\ solver.op = "validateChargeBalance"
    /\ Solved(validateChargeBalance(solver.args.elementCounts))

Gcd ==
    /\ solver.op = "gcd"
    /\ Solved([value |-> gcd(solver.args.a, solver.args.b)])

SolverNext == MultiElementSearch \/ ValidateChargeBalance \/ Gcd

SolverSpec == SolverInit /\ [][SolverNext]_vars

\* ========================================================================
\* Properties
\* ========================================================================
Done == pc = "done"

\* the arguments of the call, as the caller passed them
GivenElements == argsAtCall.elements
GivenCounts == argsAtCall.counts
WithCounts == ~GivenCounts.isNull /\ GivenCounts.items # <<>>
ElementSet == {GivenElements[i] : i \in 1..Len(GivenElements)}

\* the elements of the call in ascending atomic number
AscendingElements ==
    LET numbers == ascending({el.atomicNumber : el \in ElementSet})
    IN  [i \in 1..Len(numbers) |->
            CHOOSE el \in ElementSet : el.atomicNumber = numbers[i]]

\* the count the caller gave for an element
CountOf(el) ==
    LET i == CHOOSE j \in 1..Len(GivenCounts.items) :
                 GivenCounts.items[j].element = el
    IN  GivenCounts.items[i].count

\* the counts argument rearranged in ascending atomic number
AscendingCounts ==
    [isNull |-> GivenCounts.isNull,
     items |-> IF WithCounts
               THEN [k \in 1..Len(AscendingElements) |->
                        [element |-> AscendingElements[k],
                         count |-> CountOf(AscendingElements[k])]]
               ELSE <<>>]

HasNobleGas == \E el \in ElementSet : el.category = "noble gas"
LacksElectronegativity(el) == el.atomicNumber \notin DOMAIN electronegativityTable
MissingElectronegativity == \E el \in ElementSet : LacksElectronegativity(el)
ShortCircuited == HasNobleGas \/ MissingElectronegativity

\* the nonzero oxidation states an element record lists
NonZeroStates(el) ==
    IF "oxidationStates" \in DOMAIN el
    THEN {el.oxidationStates[i] : i \in 1..Len(el.oxidationStates)} \ {0}
    ELSE {}
MissingOxidationStates == \E el \in ElementSet : NonZeroStates(el) = {}

MaxAbsOx == MathMax(UNION {{Abs(ox) : ox \in NonZeroStates(el)} : el \in Catalog})

Candidates == {analysis.formulas[i] : i \in 1..Len(analysis.formulas)}

\* canonical formula text of a count vector over the ascending elements:
\* an element of count 0 is left out, a count of 1 has no subscript
CanonicalPart(el, count) ==
    IF count = 0 THEN ""
    ELSE el.symbol \o (IF count = 1 THEN "" ELSE ToString(count))

\* the entries of a candidate's assignment for a symbol
EntriesFor(c, symbol) ==
    {c.oxidationStates[i] : i \in {j \in 1..Len(c.oxidationStates) :
                                      c.oxidationStates[j].symbol = symbol}}

\* the subscripts worth trying for the k-th element when reading a formula
SubscriptHints(c, k) ==
    LET el == AscendingElements[k]
        entries == EntriesFor(c, el.symbol)
    IN  {0, 1}
        \cup {Abs(e.count) : e \in {x \in entries : "count" \in DOMAIN x}}
        \cup (IF WithCounts THEN {Abs(CountOf(el))} ELSE {})
        \cup (IF \E e \in entries : "count" \notin DOMAIN e
              THEN 1..MaxAbsOx ELSE {})

\* the count vectors whose canonical text is the candidate's formula
RECURSIVE ReadingsFrom(_, _, _, _)
ReadingsFrom(c, k, prefix, cv) ==
    IF k > Len(AscendingElements)
    THEN IF prefix = c.formula /\ \E i \in 1..Len(cv) : cv[i] > 0
         THEN {cv} ELSE {}
    ELSE UNION {ReadingsFrom(c, k + 1,
                             prefix \o CanonicalPart(AscendingElements[k], v),
                             Append(cv, v)) : v \in SubscriptHints(c, k)}

Readings(c) == ReadingsFrom(c, 1, "", <<>>)

\* total charge of a candidate's assignment under a reading of its formula;
\* every element the formula shows must have exactly one entry
RECURSIVE ChargeFrom(_, _, _)
ChargeFrom(c, cv, k) ==
    IF k > Len(cv) THEN 0
    ELSE (IF cv[k] = 0 THEN 0
          ELSE (CHOOSE e \in EntriesFor(c, AscendingElements[k].symbol) : TRUE).ox
                * cv[k])
         + ChargeFrom(c, cv, k + 1)

AssignmentBalances(c) ==
    \E cv \in Readings(c) :
        /\ \A k \in 1..Len(cv) :
              cv[k] > 0 =>
                 Cardinality(EntriesFor(c, AscendingElements[k].symbol)) = 1
        /\ ChargeFrom(c, cv, 1) = 0

\* C1: every candidate that carries an oxidation-state assignment has
\* sum(oxidationState x count) = 0, count being the subscript its formula
\* shows for the element (1 when the subscript is elided).
ChargeBalanceInvariant ==
    Done => \A c \in Candidates :
                c.oxidationStates # <<>> => AssignmentBalances(c)

\* C2: a call whose element list holds a noble gas returns likelihood
\* 'unlikely' and bondType 'none', with or without counts; without counts
\* the candidate list is empty.
NobleGasAbsorption ==
    (Done /\ HasNobleGas) =>
        /\ analysis.likelihood = "unlikely"
        /\ analysis.bondType = "none"
        /\ (~WithCounts => analysis.formulas = <<>>)

NobleGasWithCountsSeen ==
    /\ Done /\ WithCounts
    /\ Helium \in ElementSet /\ Rutherfordium \in ElementSet
    /\ Cardinality(ElementSet) = 3
    /\ analysis.bondType = "none"

\* C3: the result does not depend on the order of the element list or of
\* the counts list: elements sequence (ascending), candidates, likelihood
\* and bondType are those of the call with both lists in ascending order.
OrderIndependence ==
    Done =>
        LET reference == analyzeCompound(AscendingElements, AscendingCounts)
        IN  /\ analysis.elements = AscendingElements
            /\ analysis.formulas = reference.formulas
            /\ analysis.likelihood = reference.likelihood
            /\ analysis.bondType = reference.bondType

PermutedCallSeen ==
    /\ Done /\ WithCounts
    /\ Len(GivenElements) = 3
    /\ GivenElements[1].atomicNumber > GivenElements[3].atomicNumber
    /\ GivenElements[3].atomicNumber > GivenElements[2].atomicNumber
    /\ analysis.likelihood = "likely"

\* C4: in every candidate formula the symbols are in strictly ascending
\* atomic number and a count of 1 has no subscript; for Hydrogen and Oxygen
\* without counts the binary solver lists H2O with H:+1, O:-2 and never HO2.
CanonicalFormulas ==
    Done =>
        /\ \A c \in Candidates : Readings(c) # {}
        /\ (AscendingElements = <<Hydrogen, Oxygen>> /\ ~WithCounts) =>
              /\ \E c \in Candidates :
                    /\ c.formula = "H2O"
                    /\ c.oxidationStates[1].symbol = "H"
                    /\ c.oxidationStates[1].ox = 1
                    /\ c.oxidationStates[2].symbol = "O"
                    /\ c.oxidationStates[2].ox = -2
              /\ \A c \in Candidates : c.formula # "HO2"

WaterFromReversedCallSeen ==
    /\ Done /\ ~WithCounts
    /\ GivenElements = <<Oxygen, Hydrogen>>
    /\ \E c \in Candidates : c.formula = "H2O"

\* compounds of the exact-formula registry made of catalogued elements,
\* as the atoms they consist of
RegistryCompositions ==
    ("H2O" :> {<<"H", 2>>, <<"O", 1>>}) @@
    ("H2O2" :> {<<"H", 2>>, <<"O", 2>>}) @@
    ("CO2" :> {<<"C", 1>>, <<"O", 2>>}) @@
    ("CO" :> {<<"C", 1>>, <<"O", 1>>}) @@
    ("NH3" :> {<<"N", 1>>, <<"H", 3>>}) @@
    ("CH4" :> {<<"C", 1>>, <<"H", 4>>}) @@
    ("HNO3" :> {<<"H", 1>>, <<"N", 1>>, <<"O", 3>>}) @@
    ("CaCO3" :> {<<"Ca", 1>>, <<"C", 1>>, <<"O", 3>>}) @@
    ("CaO" :> {<<"Ca", 1>>, <<"O", 1>>})

\* the registry compounds the user counts spell
SpelledCompounds ==
    IF WithCounts
    THEN {key \in DOMAIN RegistryCompositions :
             RegistryCompositions[key] =
                {<<el.symbol, CountOf(el)>> : el \in ElementSet}}
    ELSE {}

\* some choice of one nonzero state per element balances the user counts
RECURSIVE BalanceableFrom(_, _)
BalanceableFrom(k, charge) ==
    IF k > Len(AscendingElements) THEN charge = 0
    ELSE \E ox \in NonZeroStates(AscendingElements[k]) :
            BalanceableFrom(k + 1, charge + ox * CountOf(AscendingElements[k]))

Balanceable == WithCounts /\ BalanceableFrom(1, 0)

Sentences == {analysis.reason[i] : i \in 1..Len(analysis.reason)}

\* C5: explicit counts that spell a compound of the exact-formula registry
\* and balance give a formula string equal to the registry key, a registry
\* hit and likelihood 'likely'; for CH4 the assignment is C:-4, H:+1 (x4).
RegistryFormulaHit ==
    Done =>
        \A key \in SpelledCompounds :
            Balanceable =>
                /\ analysis.formulas[1].formula = key
                /\ commonFormulas[key] \in Sentences
                /\ analysis.likelihood = "likely"
                /\ key = "CH4" =>
                      \A e \in EntriesFor(analysis.formulas[1], "C") \cup
                               EntriesFor(analysis.formulas[1], "H") :
                          e.ox = (IF e.symbol = "C" THEN -4 ELSE 1)

\* C6: every returned analysis has at most 20 candidates.
CandidateCap == Done => Len(analysis.formulas) <= 20

\* the largest electronegativity difference over the pairs of elements
D ==
    MathMax({Abs(electronegativityTable[a.atomicNumber]
                 - electronegativityTable[b.atomicNumber]) :
                a \in ElementSet, b \in ElementSet})

UnitCounts ==
    [isNull |-> FALSE,
     items |-> [k \in 1..Len(GivenElements) |->
                   [element |-> GivenElements[k], count |-> 1]]]

Rank(likelihood) ==
    CASE likelihood = "unlikely" -> 0
      [] likelihood = "possible but unstable" -> 1
      [] likelihood = "likely" -> 2

\* the sentence registered for the pair of elements, in either symbol order
PairSentence ==
    LET a == AscendingElements[1].symbol
        b == AscendingElements[2].symbol
    IN  IF Cardinality(ElementSet) # 2 THEN ""
        ELSE IF (a \o "-" \o b) \in DOMAIN commonPairs
        THEN commonPairs[a \o "-" \o b]
        ELSE IF (b \o "-" \o a) \in DOMAIN commonPairs
        THEN commonPairs[b \o "-" \o a]
        ELSE ""

\* the sentence registered for the formula of the user counts
FormulaSentence ==
    IF WithCounts /\ analysis.formulas[1].formula \in DOMAIN commonFormulas
    THEN commonFormulas[analysis.formulas[1].formula]
    ELSE ""

NotLoweredByRegistry ==
    Rank(analysis.likelihood) >=
        Rank(analyzeCompoundWith(EmptyRegistry, GivenElements, GivenCounts).likelihood)

\* C8 (as stated): on every path that is not short-circuited, a registered
\* pair or a registered exact formula gives likelihood 'likely' and its
\* sentence in the rationale, and the likelihood is never lower than with
\* an empty registry.
RegistryPassImproves ==
    (Done /\ ~ShortCircuited) =>
        /\ PairSentence # "" =>
              analysis.likelihood = "likely" /\ PairSentence \in Sentences
        /\ FormulaSentence # "" =>
              analysis.likelihood = "likely" /\ FormulaSentence \in Sentences
        /\ NotLoweredByRegistry

\* C8 (amended): the pair table is consulted by the binary solver only (no
\* counts, both elements with a nonzero state): there a registered pair
\* gives 'likely' and its sentence heads the rationale; the formula table
\* is consulted for user counts only: there a registered formula that
\* balances gives 'likely' and its sentence in the rationale; the
\* likelihood is never lower than with an empty registry.
RegistryPassImprovesWhereConsulted ==
    (Done /\ ~ShortCircuited) =>
        /\ (~WithCounts /\ PairSentence # "" /\ ~MissingOxidationStates) =>
              analysis.likelihood = "likely" /\ analysis.reason[1] = PairSentence
        /\ (FormulaSentence # "" /\ Balanceable) =>
              analysis.likelihood = "likely" /\ FormulaSentence \in Sentences
        /\ NotLoweredByRegistry

PairHitInReverseOrderSeen ==
    /\ Done /\ ~WithCounts
    /\ ElementSet = {Oxygen, Calcium}
    /\ analysis.likelihood = "likely"
    /\ analysis.reason[1] = commonPairs["Ca-O"]

\* C9 (as stated): an element without a nonzero oxidation state, on a call
\* that is not short-circuited, gives 'unlikely' and no candidate, for two
\* elements, for three or more, and with explicit counts.
MissingOxidationStatesUnlikely ==
    (Done /\ ~ShortCircuited /\ MissingOxidationStates) =>
        analysis.likelihood = "unlikely" /\ analysis.formulas = <<>>

\* C9 (amended): without explicit counts (two elements, or three or more)
\* the result is 'unlikely' with no candidate; with explicit counts it is
\* 'possible but unstable' with the user formula as the only candidate,
\* carrying no assignment.
MissingOxidationStatesByPath ==
    (Done /\ ~ShortCircuited /\ MissingOxidationStates) =>
        IF WithCounts
        THEN /\ analysis.likelihood = "possible but unstable"
             /\ Len(analysis.formulas) = 1
             /\ analysis.formulas[1].oxidationStates = <<>>
        ELSE analysis.likelihood = "unlikely" /\ analysis.formulas = <<>>

MissingOxidationStatesSeen ==
    /\ Done /\ ~WithCounts /\ ~ShortCircuited
    /\ Rhodium \in ElementSet /\ Cardinality(ElementSet) = 3
    /\ analysis.likelihood = "unlikely"

\* the formula of the user counts: each symbol in ascending atomic number,
\* followed by its count when the count exceeds 1
UserFormulaText ==
    JoinStrings([k \in 1..Len(AscendingElements) |->
        LET el == AscendingElements[k]
        IN  el.symbol \o (IF CountOf(el) > 1 THEN ToString(CountOf(el)) ELSE "")])

SymbolsText ==
    JoinStrings([k \in 1..Len(AscendingElements) |-> AscendingElements[k].symbol])

\* C10: without a noble gas and with an element lacking electronegativity,
\* the result is bondType 'unknown', likelihood 'possible but unstable' and
\* exactly one candidate: the symbols concatenated in ascending atomic
\* number without counts, the formula of the user counts with them; the
\* candidate carries no oxidation-state assignment.
MissingElectronegativityFallback ==
    (Done /\ ~HasNobleGas /\ MissingElectronegativity) =>
        /\ analysis.bondType = "unknown"
        /\ analysis.likelihood = "possible but unstable"
        /\ Len(analysis.formulas) = 1
        /\ analysis.formulas[1].formula =
              (IF WithCounts THEN UserFormulaText ELSE SymbolsText)
        /\ analysis.formulas[1].oxidationStates = <<>>

MissingElectronegativityWithCountsSeen ==
    /\ Done /\ WithCounts /\ ~HasNobleGas
    /\ Rutherfordium \in ElementSet /\ Cardinality(ElementSet) = 3
    /\ GivenElements[1] = Rutherfordium
    /\ analysis.bondType = "unknown"

Likelihoods == {"likely", "possible but unstable", "unlikely"}
BondTypes == {"ionic", "polar covalent", "nonpolar covalent", "none", "unknown"}

ReturnsWellFormed ==
    Done =>
        /\ analysis # NoAnalysis
        /\ {"likelihood", "bondType", "formulas", "elements", "reason"}
              \subseteq DOMAIN analysis
        /\ analysis.likelihood \in Likelihoods
        /\ analysis.bondType \in BondTypes

\* C11: every call returns (no exception) an analysis record whose
\* likelihood is one of the three fixed values and whose bondType is one of
\* the fixed bond-type values.
AnalyzeCompoundTotal ==
    [][pc = "call" => (Done' /\ ReturnsWellFormed')]_vars

WellFormedReturnSeen ==
    /\ Done /\ WithCounts
    /\ Rhodium \in ElementSet /\ Cardinality(ElementSet) = 3
    /\ analysis.likelihood = "possible but unstable"
    /\ analysis.bondType = "ionic"

\* C12: the call leaves the caller's element list and counts list as they
\* were: the same entries in the same order.
ArgumentsUntouched ==
    Done =>
        /\ elements = argsAtCall.elements
        /\ userSpecifiedCounts = argsAtCall.counts

\* the subscript the user formula shows for an element
RenderedCount(el) == IF CountOf(el) > 1 THEN CountOf(el) ELSE 1

\* some choice of one nonzero state per element balances the formula as
\* it is rendered
RECURSIVE FormulaBalancedFrom(_, _)
FormulaBalancedFrom(k, charge) ==
    IF k > Len(AscendingElements) THEN charge = 0
    ELSE \E ox \in NonZeroStates(AscendingElements[k]) :
            FormulaBalancedFrom(k + 1,
                charge + ox * RenderedCount(AscendingElements[k]))

FormulaBalanced == WithCounts /\ FormulaBalancedFrom(1, 0)

\* C13: with explicit counts, no noble gas and every electronegativity
\* present, the verdict is 'likely' when the formula is charge-balanced and
\* (hits the exact-formula registry or D > 0.4), and 'possible but
\* unstable' otherwise (balanced with D <= 0.4 and no hit, or not
\* balanced); it is never 'unlikely'.
UserFormulaVerdict ==
    (Done /\ WithCounts /\ ~ShortCircuited) =>
        analysis.likelihood =
            (IF FormulaBalanced /\ (FormulaSentence # "" \/ D > 40)
             THEN "likely" ELSE "possible but unstable")

MultiElementPath ==
    Done /\ ~WithCounts /\ ~ShortCircuited /\ Cardinality(ElementSet) >= 3

\* the number of candidates the search reports having found, read from
\* the rationale ("Found N ..."); 0 when the rationale reports none
FoundReported ==
    LET s(n) == IF n = 1 THEN "" ELSE "s"
        texts(n) ==
            {"Found " \o ToString(n) \o " possible charge-balanced formulas.",
             "Found " \o ToString(n) \o " possible formula" \o s(n)
                \o " with mixed ionic/covalent character.",
             "Found " \o ToString(n) \o " charge-balanced formula" \o s(n)
                \o " with primarily covalent character."}
        counts == {n \in 1..maxFormulas : analysis.reason[1] \in texts(n)}
    IN  IF counts = {} THEN 0 ELSE CHOOSE n \in counts : TRUE

\* C14: the multi-element path never returns 'likely'; it returns
\* 'unlikely' exactly when no candidate was found and 'possible but
\* unstable' otherwise; the '>20 candidates' test is made on the number
\* found (up to 50) before the list is cut to its first 20.
MultiElementNeverLikely ==
    MultiElementPath =>
        /\ analysis.likelihood # "likely"
        /\ analysis.likelihood = "unlikely" <=> analysis.formulas = <<>>
        /\ analysis.likelihood = "possible but unstable" <=> FoundReported > 0
        /\ FoundReported <= maxFormulas
        /\ Len(analysis.formulas) =
              (IF FoundReported > 20 THEN 20 ELSE FoundReported)
        /\ FoundReported > 20 <=>
              analysis.reason[1] = "Found " \o ToString(FoundReported)
                                   \o " possible charge-balanced formulas."

MoreThanTwentyFoundSeen ==
    /\ MultiElementPath
    /\ FoundReported = maxFormulas
    /\ Len(analysis.formulas) = 20
    /\ analysis.likelihood = "possible but unstable"

BinaryPath ==
    /\ Done /\ ~WithCounts /\ ~ShortCircuited
    /\ Cardinality(ElementSet) = 2 /\ ~MissingOxidationStates

\* two of the elements have nonzero states of opposite sign
OppositePairExists ==
    \E a \in ElementSet, b \in ElementSet :
        /\ a # b
        /\ \E x \in NonZeroStates(a), y \in NonZeroStates(b) : x * y < 0

\* C15 (as stated): on the binary path the likelihood is 'unlikely' iff no
\* opposite-sign pair of states exists (the candidate list is empty) and
\* 'likely' otherwise; a 'likely' result has at least one candidate.
BinaryLikelyIffCandidates ==
    BinaryPath =>
        /\ analysis.formulas = <<>> <=> ~OppositePairExists
        /\ analysis.likelihood = "unlikely" <=> ~OppositePairExists
        /\ analysis.likelihood = "likely" <=> OppositePairExists
        /\ analysis.likelihood = "likely" => analysis.formulas # <<>>

\* C15 (amended): the candidate list is empty iff no opposite-sign pair of
\* states exists; the likelihood is 'likely' when a candidate exists or the
\* pair of elements is registered (then possibly with no candidate), and
\* 'unlikely' otherwise.
BinaryLikelyIffCandidatesOrRegistered ==
    BinaryPath =>
        /\ analysis.formulas = <<>> <=> ~OppositePairExists
        /\ analysis.likelihood =
              (IF OppositePairExists \/ PairSentence # ""
               THEN "likely" ELSE "unlikely")

RegisteredPairWithoutCandidateSeen ==
    /\ BinaryPath
    /\ ~OppositePairExists
    /\ PairSentence # ""
    /\ analysis.likelihood = "likely"
    /\ analysis.formulas = <<>>

\* the preferred state of an element: smallest magnitude, the positive one
\* on a tie
PreferredState(el) ==
    CHOOSE ox \in NonZeroStates(el) :
        \A other \in NonZeroStates(el) :
            \/ Abs(ox) < Abs(other)
            \/ (Abs(ox) = Abs(other) /\ ox >= other)

\* some counts 0..maxAtoms, at least two of them positive, balance the
\* preferred states
RECURSIVE PreferredBalanceFrom(_, _, _)
PreferredBalanceFrom(k, charge, shown) ==
    IF k > Len(AscendingElements) THEN charge = 0 /\ shown >= 2
    ELSE \E c \in 0..maxAtoms :
            PreferredBalanceFrom(k + 1,
                charge + PreferredState(AscendingElements[k]) * c,
                shown + (IF c > 0 THEN 1 ELSE 0))

PrimaryFinds == PreferredBalanceFrom(1, 0, 0)

StructuralSearchPath ==
    /\ Done /\ ~WithCounts /\ ~ShortCircuited /\ ~MissingOxidationStates

\* C16 (as stated): when the structural search finds no charge-balanced
\* assignment the verdict is 'unlikely' for two elements and 'possible but
\* unstable' for three or more.
NoBalanceVerdict ==
    (StructuralSearchPath /\ ~OppositePairExists) =>
        analysis.likelihood =
            (IF Cardinality(ElementSet) = 2 THEN "unlikely"
             ELSE "possible but unstable")

\* C16 (amended): for two elements without an opposite-sign pair the
\* verdict is 'unlikely', or 'likely' when the pair is registered; for three
\* or more elements whose primary search finds nothing the verdict is
\* 'possible but unstable' when the pairwise fallback finds a candidate and
\* 'unlikely' when it finds none.
NoBalanceVerdictByFallback ==
    StructuralSearchPath =>
        /\ (Cardinality(ElementSet) = 2 /\ ~OppositePairExists) =>
              analysis.likelihood =
                  (IF PairSentence # "" THEN "likely" ELSE "unlikely")
        /\ (Cardinality(ElementSet) >= 3 /\ ~PrimaryFinds) =>
              /\ analysis.likelihood =
                    (IF OppositePairExists THEN "possible but unstable"
                     ELSE "unlikely")
              /\ analysis.formulas = <<>> <=> ~OppositePairExists

FallbackRescueSeen ==
    /\ StructuralSearchPath
    /\ Cardinality(ElementSet) = 3
    /\ ~PrimaryFinds /\ OppositePairExists
    /\ analysis.likelihood = "possible but unstable"
    /\ analysis.formulas # <<>>

\* ------------------------------------------------------------------------
\* The page and the client's socket
\* ------------------------------------------------------------------------
PairwiseDistinctNumbers(els) ==
    \A i, j \in 1..Len(els) : i # j => els[i].atomicNumber # els[j].atomicNumber

\* C17: after any sequence of element-card clicks, Clear clicks and Build
\* clicks the Build button is enabled exactly when at least two elements
\* are selected, and a call of analyzeCompound has at least two elements,
\* of pairwise distinct atomic number.
BuildNeedsTwoDistinct ==
    /\ ~buildBtnDisabled <=> Len(selectedElements) >= 2
    /\ Done => /\ Len(GivenElements) >= 2
               /\ PairwiseDistinctNumbers(GivenElements)

\* a call for three elements selected in another order than ascending
BuildOfThreeSeen ==
    /\ Done
    /\ Len(GivenElements) = 3
    /\ GivenElements[1] = Oxygen
    /\ selectedElements = <<8, 1, 2>>
    /\ ~buildBtnDisabled

\* the delays of the first to the fifth consecutive attempt, in ms
ReconnectDelays == <<2000, 4000, 8000, 16000, 30000>>

\* the step closes a socket / opens a socket
SocketClosedStep == Len(sockets') < Len(sockets)
SocketOpenedStep ==
    \E i \in 1..Len(sockets) :
        Len(sockets') = Len(sockets) /\ sockets[i] = "CONNECTING" /\ sockets'[i] = "OPEN"
GivenUp == reconnectAttempts = 5 /\ sockets = <<>> /\ timers = <<>>

ReconnectStep ==
    /\ reconnectAttempts' \in 0..5
    /\ Len(timers') <= 1
    /\ SocketClosedStep =>
          IF reconnectAttempts < 5
          THEN /\ reconnectAttempts' = reconnectAttempts + 1
               /\ timers' = Append(timers, ReconnectDelays[reconnectAttempts'])
          ELSE /\ reconnectAttempts' = 5
               /\ timers' = timers
    /\ ~SocketClosedStep => Len(timers') <= Len(timers)
    /\ SocketOpenedStep => reconnectAttempts' = 0
    /\ GivenUp => GivenUp'

\* C19: every close of the client's socket schedules at most one reconnect,
\* and nothing else schedules one; the k-th consecutive attempt is delayed
\* 2 s, 4 s, 8 s, 16 s, 30 s; reconnectAttempts stays within 0..5 and is 0
\* after every open; once five consecutive attempts have ended in a close
\* without an open, no attempt is scheduled any more.
ReconnectWithBackoff == [][ReconnectStep]_vars

\* the fifth attempt failed: the client has given up
ReconnectGivenUpSeen == GivenUp /\ ~connected

\* ------------------------------------------------------------------------
\* The server's WebSocket endpoint
\* ------------------------------------------------------------------------
OpenClients == {c \in Connections : readyState[c] = "OPEN"}
OpenedNotClosed == {c \in Connections : readyState[c] \in {"OPEN", "CLOSING"}}
CountsSent(c) == SelectSeq(sent[c], LAMBDA m : m.type = "CLIENT_COUNT")
LastCount(c) == CountsSent(c)[Len(CountsSent(c))].payload.count

\* the step handles a 'connection' / a 'close' event
ConnectionStep ==
    \E c \in Connections : readyState[c] = "NONE" /\ readyState'[c] = "OPEN"
CloseStep ==
    \E c \in Connections : readyState[c] # "CLOSED" /\ readyState'[c] = "CLOSED"

\* what the step appended to the messages sent on c
NewlySent(c) == SubSeq(sent'[c], Len(sent[c]) + 1, Len(sent'[c]))
OnlyAppended(c) == SubSeq(sent'[c], 1, Len(sent[c])) = sent[c]

ClientsTracked ==
    /\ clients = OpenedNotClosed
    /\ \A c \in OpenClients :
          /\ CountsSent(c) # <<>>
          /\ LastCount(c) = Cardinality(clients)
          /\ (\A d \in Connections : readyState[d] # "CLOSING") =>
                 LastCount(c) = Cardinality(OpenClients)

BroadcastStep ==
    (ConnectionStep \/ CloseStep) =>
        \A c \in Connections :
            /\ OnlyAppended(c)
            /\ SelectSeq(NewlySent(c), LAMBDA m : m.type = "CLIENT_COUNT") =
                  IF c \in clients' /\ readyState'[c] = "OPEN"
                  THEN <<[type |-> "CLIENT_COUNT",
                          payload |-> [count |-> Cardinality(clients')]]>>
                  ELSE <<>>

\* C18: after any interleaving of connection and close events the clients
\* set is the set of connections opened and not yet closed; every
\* connection and every close sends one CLIENT_COUNT to every client of the
\* set whose socket is open, and to nobody else, with the size of the set as
\* its count; so the last CLIENT_COUNT sent to an open client carries the size
\* of the set, which is the number of open connections whenever no close is
\* pending.
ClientCountTracksClients == [][BroadcastStep /\ ClientsTracked']_vars

\* a second client connected while the first was closing, then the first
\* closed: the second has been told 1, 2, 1... and last of all 1
CountAfterCloseSeen ==
    /\ clients = {2}
    /\ readyState[1] = "CLOSED"
    /\ Len(CountsSent(2)) >= 2
    /\ CountsSent(2)[Len(CountsSent(2)) - 1].payload.count = 2
    /\ LastCount(2) = 1

\* what a data value lacks or has
HasType(data) == "type" \in DOMAIN data
HasPayload(data) == "payload" \in DOMAIN data
HasQueryText(data) ==
    /\ HasPayload(data)
    /\ "query" \in DOMAIN data.payload
    /\ data.payload.query.type = "string"

\* the element of the server's table with the atomic number asked for
ElementAskedFor(data) ==
    LET asked == {i \in 1..Len(serverElements) :
                     /\ "atomicNumber" \in DOMAIN data.payload
                     /\ serverElements[i].atomicNumber = data.payload.atomicNumber}
    IN  IF asked = {} THEN [isNull |-> TRUE]
        ELSE serverElements[CHOOSE i \in asked : TRUE]

\* the message deserves an answer: valid JSON, a known type, and the payload
\* the type needs (an object for GET_ELEMENT, a query text for SEARCH)
Answerable(message) ==
    /\ message.valid
    /\ HasType(message.data)
    /\ \/ message.data.type = "PING"
       \/ message.data.type = "GET_ELEMENT" /\ HasPayload(message.data)
       \/ message.data.type = "SEARCH" /\ HasQueryText(message.data)

AnsweredBy(message, replies) ==
    IF ~Answerable(message) THEN replies = <<>>
    ELSE /\ Len(replies) = 1
         /\ CASE message.data.type = "PING" -> replies[1] = [type |-> "PONG"]
              [] message.data.type = "GET_ELEMENT" ->
                    replies[1] = [type |-> "ELEMENT_DATA",
                                  payload |-> ElementAskedFor(message.data)]
              [] message.data.type = "SEARCH" ->
                    replies[1].type = "SEARCH_RESULTS"

MessageStep ==
    Len(inbox') = Len(inbox) + 1 =>
        LET received == inbox'[Len(inbox')]
        IN  /\ OnlyAppended(received.ws)
            /\ AnsweredBy(received.message, NewlySent(received.ws))
            /\ \A c \in Connections \ {received.ws} : sent'[c] = sent[c]
            /\ clients' = clients
            /\ readyState' = readyState
            /\ running'

\* C20: a GET_ELEMENT message is answered by exactly one ELEMENT_DATA (the
\* element with that atomic number, or null), a SEARCH by exactly one
\* SEARCH_RESULTS, a PING by exactly one PONG, sent to the sender only; a
\* message that is no valid JSON, has an unknown type or lacks the payload
\* its type needs gets no reply; no message changes the clients set, closes
\* a connection or stops the server, so later messages are answered too.
EveryMessageAnswered == [][MessageStep]_vars

\* a message the server cannot read, then a PING on the same connection,
\* which is answered
AnsweredAfterBadMessageSeen ==
    /\ Len(inbox) = 2
    /\ inbox[1] = [ws |-> 1, message |-> [valid |-> FALSE]]
    /\ inbox[2] = [ws |-> 1, message |-> [valid |-> TRUE, data |-> [type |-> "PING"]]]
    /\ running
    /\ sent[1][Len(sent[1])] = [type |-> "PONG"]

\* ------------------------------------------------------------------------
\* The solvers' steps
\* ------------------------------------------------------------------------
SearchDone == solver.op = "multiElementSearch" /\ solver.done
SearchElements == solver.args.elements
Primary == solver.result.primary.formulas

\* count vectors over the elements of the search
CountVectors == [1..Len(SearchElements) -> 0..maxAtoms]
RECURSIVE ChargeOfVector(_, _)
ChargeOfVector(v, k) ==
    IF k > Len(SearchElements) THEN 0
    ELSE v[k] * PreferredState(SearchElements[k]) + ChargeOfVector(v, k + 1)

\* the vectors the unpruned enumeration would emit
FeasibleVectors ==
    {v \in CountVectors :
        /\ ChargeOfVector(v, 1) = 0
        /\ Cardinality({k \in 1..Len(SearchElements) : v[k] > 0}) >= 2}

\* lexicographic order, the first element's count most significant
LexBefore(v, w) ==
    \E k \in 1..Len(v) : v[k] < w[k] /\ \A j \in 1..(k - 1) : v[j] = w[j]

\* the count vector and the states a candidate's annotation states
VectorOf(c) ==
    [k \in 1..Len(SearchElements) |->
        LET entries == EntriesFor(c, SearchElements[k].symbol)
        IN  IF entries = {} THEN 0 ELSE (CHOOSE e \in entries : TRUE).count]
AnnotatesPreferred(c) ==
    /\ \A i \in 1..Len(c.oxidationStates) :
          \E k \in 1..Len(SearchElements) :
              /\ c.oxidationStates[i].symbol = SearchElements[k].symbol
              /\ c.oxidationStates[i].ox = PreferredState(SearchElements[k])
              /\ c.oxidationStates[i].count > 0
    /\ \A k \in 1..Len(SearchElements) :
          Cardinality(EntriesFor(c, SearchElements[k].symbol)) <= 1

\* C21: the primary search returns the first min(50, n) of the n count
\* vectors in {0..12}^N that balance the preferred states with at least two
\* nonzero counts, in lexicographic order (first element most significant),
\* each annotated with the preferred states: pruning discards none of them.
PrimarySearchIsLexPrefix ==
    SearchDone =>
        LET found == [i \in 1..Len(Primary) |-> VectorOf(Primary[i])]
            n == Cardinality(FeasibleVectors)
        IN  /\ Len(found) = (IF n < maxFormulas THEN n ELSE maxFormulas)
            /\ \A i \in 1..Len(found) :
                  /\ found[i] \in FeasibleVectors
                  /\ AnnotatesPreferred(Primary[i])
            /\ \A i \in 1..(Len(found) - 1) : LexBefore(found[i], found[i + 1])
            /\ \A v \in FeasibleVectors :
                  \/ \E i \in 1..Len(found) : found[i] = v
                  \/ (found # <<>> /\ LexBefore(found[Len(found)], v))

\* a search cut at 50 candidates although more vectors balance, with a
\* first element whose counts the pruning test has to let through
SearchCutAtFiftySeen ==
    /\ SearchDone
    /\ Len(Primary) = maxFormulas
    /\ Cardinality(FeasibleVectors) > maxFormulas
    /\ PreferredState(SearchElements[1]) = 3

FallbackRan == SearchDone /\ solver.result.fallbackRan
Fallback == solver.result.fallback

\* C22: when the pairwise fallback runs it produces at most 10 candidates,
\* each with exactly two elements of nonzero count.
FallbackAtMostTen ==
    FallbackRan =>
        /\ Len(Fallback) <= 10
        /\ \A i \in 1..Len(Fallback) :
              Cardinality({k \in 1..Len(SearchElements) :
                              VectorOf(Fallback[i])[k] > 0}) = 2

ValidatorDone == solver.op = "validateChargeBalance" /\ solver.done
Counted == solver.args.elementCounts

\* the nonzero states of the k-th counted element, in listed order
ListedStates(k) ==
    LET el == Counted[k].element
    IN  IF "oxidationStates" \in DOMAIN el
        THEN SelectSeq(el.oxidationStates, LAMBDA ox : ox # 0)
        ELSE <<>>

\* a choice picks, for each counted element, the position of one state
Choices ==
    {c \in [1..Len(Counted) -> 1..MaxOxidationState + 1] :
        \A k \in 1..Len(Counted) : c[k] <= Len(ListedStates(k))}
RECURSIVE ChargeOfChoice(_, _)
ChargeOfChoice(c, k) ==
    IF k > Len(Counted) THEN 0
    ELSE ListedStates(k)[c[k]] * Counted[k].count + ChargeOfChoice(c, k + 1)
BalancingChoices == {c \in Choices : ChargeOfChoice(c, 1) = 0}

\* C23: validateChargeBalance reports 'balanced' exactly when some choice of
\* one nonzero listed state per counted element has sum(state x count) = 0,
\* and then reports the first such choice in depth-first order: elements in
\* ascending atomic number, each element's states in listed order.
ValidatorFindsFirstChoice ==
    ValidatorDone =>
        /\ solver.result.balanced <=> BalancingChoices # {}
        /\ solver.result.balanced =>
              LET first == CHOOSE c \in BalancingChoices :
                              \A d \in BalancingChoices : d = c \/ LexBefore(c, d)
                  reported == solver.result.oxidationStates
              IN  /\ Len(reported) = Len(Counted)
                  /\ \A k \in 1..Len(Counted) :
                        /\ reported[k].symbol = Counted[k].element.symbol
                        /\ reported[k].ox = ListedStates(k)[first[k]]
                        /\ reported[k].count = Counted[k].count

\* a formula that several choices balance: C (-4) O (+2) x2 comes before
\* C (+4) O (-2) x2
FirstOfSeveralChoicesSeen ==
    /\ ValidatorDone
    /\ Counted = << [element |-> Carbon, count |-> 1],
                    [element |-> Oxygen, count |-> 2] >>
    /\ Cardinality(BalancingChoices) >= 2
    /\ solver.result.balanced
    /\ solver.result.oxidationStates[1].ox = -4
    /\ solver.result.oxidationStates[2].ox = 2

\* the nonzero states an element lists, in listed order
ListedNonZero(el) ==
    IF "oxidationStates" \in DOMAIN el
    THEN SelectSeq(el.oxidationStates, LAMBDA ox : ox # 0)
    ELSE <<>>
StatesOfFirst == ListedNonZero(AscendingElements[1])
StatesOfSecond == ListedNonZero(AscendingElements[2])

\* the positions (i, j) of the pairs of states of opposite sign
OppositePositions ==
    {p \in (1..Len(StatesOfFirst)) \X (1..Len(StatesOfSecond)) :
        StatesOfFirst[p[1]] * StatesOfSecond[p[2]] < 0}
\* the place of a pair among them, the first element's state varying slowest
PlaceOf(p) ==
    Cardinality({q \in OppositePositions :
                    q[1] < p[1] \/ (q[1] = p[1] /\ q[2] <= p[2])})
GreatestCommonDivisor(a, b) ==
    MathMax({d \in 1..a : a % d = 0 /\ b % d = 0})
SubscriptText(n) == IF n = 1 THEN "" ELSE ToString(n)

\* C24: the binary solver emits exactly one candidate per pair (oxA, oxB) of
\* opposite sign, in nested iteration order with element 1 outer, and none
\* for a pair of the same sign; the candidate's subscripts are |oxB|/gcd and
\* |oxA|/gcd, coprime positive integers.
BinaryOnePerOppositePair ==
    BinaryPath =>
        /\ Len(analysis.formulas) = Cardinality(OppositePositions)
        /\ \A p \in OppositePositions :
              LET oxA == StatesOfFirst[p[1]]
                  oxB == StatesOfSecond[p[2]]
                  g == GreatestCommonDivisor(Abs(oxA), Abs(oxB))
                  subscriptA == Abs(oxB) \div g
                  subscriptB == Abs(oxA) \div g
                  c == analysis.formulas[PlaceOf(p)]
              IN  /\ c.oxidationStates[1].ox = oxA
                  /\ c.oxidationStates[2].ox = oxB
                  /\ subscriptA * g = Abs(oxB) /\ subscriptB * g = Abs(oxA)
                  /\ subscriptA >= 1 /\ subscriptB >= 1
                  /\ GreatestCommonDivisor(subscriptA, subscriptB) = 1
                  /\ c.formula = AscendingElements[1].symbol
                                   \o SubscriptText(subscriptA)
                                   \o AscendingElements[2].symbol
                                   \o SubscriptText(subscriptB)

\* carbon and oxygen: the pair (+4, -2) is reduced by its divisor 2 to CO2,
\* the 15th of the 16 candidates
ReducedSubscriptsSeen ==
    /\ BinaryPath
    /\ AscendingElements = <<Carbon, Oxygen>>
    /\ Len(analysis.formulas) = 16
    /\ analysis.formulas[15].formula = "CO2"
    /\ analysis.formulas[15].oxidationStates[1].ox = 4
    /\ analysis.formulas[15].oxidationStates[2].ox = -2

\* the closing sentence of the rationale tells which solver wrote it
LastReason == analysis.reason[Len(analysis.reason)]
BinaryReasons ==
    {"One or both elements lack non-zero oxidation states needed for compound formation.",
     "Unable to balance charges with available oxidation states.",
     "Strong ionic bonding expected. Charges balance well.",
     "Ionic bonding expected. Stable compound likely.",
     "Polar covalent bonding. Stable molecular compound.",
     "Covalent bonding. Stable compound expected."}
MultiElementReasons ==
    {"Elements lack non-zero oxidation states needed for compound formation.",
     "Unable to find charge-balanced combinations with available oxidation states.",
     "Multi-element compounds are often complex and may require specific conditions for stability.",
     "Complex multi-element compounds may form under specific conditions.",
     "Multi-element organic/molecular compounds may be stable but require specific structural knowledge."}
ByValidator == "userSpecified" \in DOMAIN analysis /\ analysis.userSpecified
ByBinarySolver == ~ByValidator /\ LastReason \in BinaryReasons
ByMultiElementSearch == ~ByValidator /\ LastReason \in MultiElementReasons

\* C25: exactly one solver handles each call: with a nonempty counts list the
\* result is the validator's (userSpecified, exactly one candidate, its
\* formula rendered from the counts) whatever the number of elements, and
\* neither other solver runs; with absent or empty counts and no
\* short-circuit the binary solver runs iff there are exactly 2 elements and
\* the multi-element search runs otherwise.
OneSolverPerCall ==
    Done =>
        /\ WithCounts =>
              /\ ByValidator
              /\ Len(analysis.formulas) = 1
              /\ analysis.formulas[1].formula = UserFormulaText
              /\ LastReason \notin BinaryReasons \cup MultiElementReasons
        /\ (~WithCounts /\ ~ShortCircuited) =>
              /\ ByBinarySolver <=> Cardinality(ElementSet) = 2
              /\ ByMultiElementSearch <=> Cardinality(ElementSet) # 2

\* three elements with counts go to the validator, not to the search
ValidatorForThreeSeen ==
    /\ Done /\ WithCounts /\ ~ShortCircuited
    /\ AscendingElements = <<Hydrogen, Carbon, Oxygen>>
    /\ ByValidator
    /\ analysis.formulas[1].formula = "H2CO2"

\* the sentences of the two short-circuits, with and without user counts
NobleGasReason ==
    "Noble gas with a complete valence shell will not readily form compounds."
MissingDataReasons ==
    {"Insufficient electronegativity data available for complete analysis.",
     "Insufficient electronegativity data available for complete analysis of your formula."}

\* C26: the short-circuits are evaluated in a fixed order before any solver:
\* noble gas, then missing electronegativity, then oxidation-state data. An
\* input with a noble gas and an element without electronegativity yields
\* 'unlikely'/'none'; an input without a noble gas in which an element lacks
\* electronegativity and some element lacks nonzero oxidation states yields
\* 'possible but unstable'/'unknown'.
ShortCircuitOrder ==
    Done =>
        /\ (HasNobleGas /\ MissingElectronegativity) =>
              /\ analysis.likelihood = "unlikely"
              /\ analysis.bondType = "none"
              /\ analysis.reason = <<NobleGasReason>>
        /\ (~HasNobleGas /\ MissingElectronegativity /\ MissingOxidationStates) =>
              /\ analysis.likelihood = "possible but unstable"
              /\ analysis.bondType = "unknown"
              /\ Len(analysis.reason) = 1
              /\ analysis.reason[1] \in MissingDataReasons

\* rutherfordium has no electronegativity and rhodium lists no oxidation
\* states: the missing electronegativity decides
MissingDataBeforeStatesSeen ==
    /\ Done /\ ~WithCounts
    /\ AscendingElements = <<Rhodium, Rutherfordium>>
    /\ MissingOxidationStates
    /\ analysis.bondType = "unknown"

GcdDone == solver.op = "gcd" /\ solver.done

\* 1 + 13 + 13^2 + ... + 13^n: the calls of a search of depth n + 1 with
\* maxAtoms + 1 branches at each level
RECURSIVE FullTree(_)
FullTree(n) == IF n = 0 THEN 1 ELSE 1 + (maxAtoms + 1) * FullTree(n - 1)

\* the calls of findBalance when every state of every element is tried
RECURSIVE FullChoiceTree(_)
FullChoiceTree(k) ==
    IF k > Len(Counted) THEN 1
    ELSE 1 + Len(ListedStates(k)) * FullChoiceTree(k + 1)

SearchWithinBounds ==
    LET n == Len(SearchElements)
        run == solver.result.primary
    IN  /\ run.deepest <= n
        /\ run.widest <= maxAtoms
        /\ run.calls <= FullTree(n)
        /\ run.lateCalls = 0
        /\ run.testedCount <= maxFormulas
        /\ Len(solver.result.fallback)
              <= ((n * (n - 1)) \div 2) * MaxOxidationState * MaxOxidationState
ValidatorWithinBounds ==
    LET run == validateChargeBalanceRun(Counted)
    IN  /\ run.found = solver.result.balanced
        /\ run.deepest <= Len(Counted)
        /\ run.calls <= FullChoiceTree(1)
GcdWithinBounds ==
    LET a == solver.args.a
        b == solver.args.b
    IN  /\ solver.result.value = GreatestCommonDivisor(a, b)
        /\ gcdCalls(a, b) <= MathMin(a, b) + 2

\* C27: every solver returns after a bounded execution: the primary search
\* has depth at most N + 1 with at most 13 branches per level and makes no
\* further recursive call once 50 candidates are emitted, the fallback loops
\* are finite, the validator's recursion has depth N over the listed states,
\* and gcd returns for every pair of positive integers.
SolversTerminate ==
    /\ SearchDone => SearchWithinBounds
    /\ ValidatorDone => ValidatorWithinBounds
    /\ GcdDone => GcdWithinBounds

\* a search stopped at 50 candidates returns without another call, after
\* fewer calls than the full tree has
SearchStoppedAtFiftySeen ==
    /\ SearchDone
    /\ solver.result.primary.testedCount = maxFormulas
    /\ solver.result.primary.lateCalls = 0
    /\ solver.result.primary.deepest = Len(SearchElements)
    /\ solver.result.primary.widest = maxAtoms
    /\ solver.result.primary.calls < FullTree(Len(SearchElements))

\* the counts list of the call buildCompound has just made
BuiltCounts == argsAtCall.counts.items
OneEntryPerSelected ==
    /\ Len(BuiltCounts) = Len(selectedElements)
    /\ \A i \in 1..Len(BuiltCounts) :
          BuiltCounts[i].element.atomicNumber = selectedElements[i]

\* C28: every counts list buildCompound passes to analyzeCompound has one
\* entry for each selected element and no others, and every count in it is
\* a positive integer, whatever the count fields contain.
BuiltCountsArePositive ==
    Done =>
        /\ OneEntryPerSelected
        /\ \A i \in 1..Len(BuiltCounts) : BuiltCounts[i].count >= 1

Returned == solver.result.formulas
SamePreferredSign ==
    \/ \A k \in 1..Len(SearchElements) : PreferredState(SearchElements[k]) > 0
    \/ \A k \in 1..Len(SearchElements) : PreferredState(SearchElements[k]) < 0

\* a candidate of the primary search: a balanced count vector over the
\* preferred states
FromPrimary(c) == VectorOf(c) \in FeasibleVectors /\ AnnotatesPreferred(c)
\* a candidate of the fallback: two elements, a listed state of each, of
\* opposite sign
FromFallback(c) ==
    /\ Len(c.oxidationStates) = 2
    /\ c.oxidationStates[1].symbol # c.oxidationStates[2].symbol
    /\ c.oxidationStates[1].ox * c.oxidationStates[2].ox < 0
    /\ \A i \in 1..2 :
          \E k \in 1..Len(SearchElements) :
              /\ SearchElements[k].symbol = c.oxidationStates[i].symbol
              /\ c.oxidationStates[i].ox \in NonZeroStates(SearchElements[k])

\* C29: if the preferred states of all elements have the same sign, the
\* primary search emits nothing and the returned candidates come only from
\* the pairwise fallback; in every result the candidates come all from the
\* primary search or all from the fallback, never a mix.
PrimaryOrFallbackNeverMixed ==
    SearchDone =>
        /\ SamePreferredSign =>
              /\ Primary = <<>>
              /\ Returned = Fallback
              /\ \A i \in 1..Len(Returned) : FromFallback(Returned[i])
        /\ Returned = Primary \/ (Primary = <<>> /\ Returned = Fallback)
        /\ \/ \A i \in 1..Len(Returned) : FromPrimary(Returned[i])
           \/ \A i \in 1..Len(Returned) :
                 FromFallback(Returned[i]) /\ ~FromPrimary(Returned[i])

\* preferred states +1, +3, +2: nothing balances them, and the fallback
\* pairs hydrogen's -1 and calcium's -2 with the others' positive states
SameSignFallbackSeen ==
    /\ SearchDone
    /\ SamePreferredSign
    /\ PreferredState(SearchElements[2]) = 3
    /\ Primary = <<>>
    /\ Len(Returned) >= 3

\* the sockets not closed and the reconnect timers pending
AtMostOneSocketOrTimer == Len(sockets) + Len(timers) <= 1
SocketCreatedStep == Len(sockets') > Len(sockets)
TimerScheduledStep == Len(timers') > Len(timers)
ConnectionStepOfClient ==
    /\ AtMostOneSocketOrTimer'
    /\ SocketCreatedStep =>
          /\ Len(timers) = 1 /\ timers' = <<>>
          /\ sockets = <<>> /\ sockets' = <<"CONNECTING">>
    /\ TimerScheduledStep =>
          /\ Len(sockets) = 1 /\ sockets' = <<>>
          /\ timers = <<>> /\ Len(timers') = 1

\* C30: in every reachable client state there is at most one WebSocket that
\* is not closed and at most one pending reconnect timer, and never both at
\* once; a new socket is created only by the single timer scheduled from the
\* previous socket's close.
OneSocketOrOneTimer ==
    AtMostOneSocketOrTimer /\ [][ConnectionStepOfClient]_vars

\* the socket the third reconnect timer created, still connecting
SocketFromThirdTimerSeen ==
    /\ sockets = <<"CONNECTING">>
    /\ timers = <<>>
    /\ reconnectAttempts = 3
    /\ ~connected

====
